---- MODULE Spec2Model ----
(***************************************************************************)
(* Disco: an OCI registry front (proxy hooks) over an IPFS-backed primary  *)
(* store and a secondary cache store.                                      *)
(*                                                                         *)
(* Strings are modelled as sequences of atoms (an atom stands for a chunk  *)
(* of characters), so that prefix stripping, prefix tests and path         *)
(* splitting are computed and not assumed.                                 *)
(***************************************************************************)
EXTENDS Integers, Sequences, FiniteSets, TLC

\* ------------------------------------------------------------------ bounds
MaxRequests == 3        \* client requests handled in one behaviour
MaxFaults == 1          \* transient I/O failures injected in one behaviour
MaxPurges == 1          \* operator purges of a whole store in one behaviour
MaxCalls == 2           \* calls of the composed driver in one behaviour of SpecDriver

\* ------------------------------------------------------------- the strings
Latest == <<1>>                     \* "latest"
TagV1 == <<2>>                      \* "v1"
LatestV1 == <<1, 2>>                \* "latestv1": a tag that begins with "latest"
V2 == <<3>>                         \* "v2"
ManifestsSeg == <<4>>               \* "manifests"
BlobsSeg == <<5>>                   \* "blobs"
UploadsSeg == <<6>>                 \* "uploads"
MyRepo == <<11>>                    \* "myrepo"
OtherRepo == <<12>>                 \* "other"
Sha256Prefix == <<115, 104, 97, 50, 53, 54, 58>>   \* "sha256:"
Slash == 47                         \* "/"
Org == <<13>>                       \* "org"
App == <<14>>                       \* "app"
Other == <<15>>                     \* "other"
OrgApp == Org \o <<Slash>> \o App     \* "org/app"
OrgOther == Org \o <<Slash>> \o Other \* "org/other"

HexBase == 1000
CidV0Base == 2000
CidV1Base == 3000

\* the 64 hex characters of the SHA-256 digest of blob d
HexDigest(d) == <<HexBase + d>>
\* the base58 CID v0 and the base32 CID v1 that carry multihash k
CidV0(k) == <<CidV0Base + k>>
CidV1(k) == <<CidV1Base + k>>

HasPrefix(s, pre) ==
    /\ Len(s) >= Len(pre)
    /\ SubSeq(s, 1, Len(pre)) = pre

\* strings.Join(segs, "/")
RECURSIVE Join(_)
Join(segs) ==
    IF segs = <<>> THEN <<>>
    ELSE IF Len(segs) = 1 THEN segs[1]
    ELSE segs[1] \o <<Slash>> \o Join(Tail(segs))

\* ------------------------------------------------------------- the images
\* image 1 is pushed by local clients; image 2 was pushed and made global
\* on another Disco instance of the same IPFS network. They share a layer.
LocalImages == {1}
RemoteImages == {2}
AllBlobs == 1..5
ManifestBlob(i) == IF i = 1 THEN 1 ELSE 4
ConfigBlob(i) == IF i = 1 THEN 2 ELSE 5
LayerBlobs(i) == <<3>>

\* imageManifest: the JSON document stored in manifest blob d
imageManifest(d) ==
    LET i == IF d = 1 THEN 1 ELSE 2
    IN [config |-> Sha256Prefix \o HexDigest(ConfigBlob(i)),
        layers |-> [k \in 1..Len(LayerBlobs(i)) |->
                        Sha256Prefix \o HexDigest(LayerBlobs(i)[k])]]

IsManifestBlob(d) == d \in {ManifestBlob(1), ManifestBlob(2)}

\* ------------------------------------------------------ CID / digest utils
IsCIDv1(h) ==
    /\ Len(h) = 1
    /\ h[1] > CidV1Base
    /\ h[1] < CidV1Base + 1000

IsCIDv0(h) ==
    /\ Len(h) = 1
    /\ h[1] > CidV0Base
    /\ h[1] < CidV0Base + 1000

IsDigestHex(digest) ==
    /\ Len(digest) = 1
    /\ digest[1] > HexBase
    /\ digest[1] < HexBase + 1000

\* ToCIDv1: the same multihash, re-encoded; <<>> stands for the parse error
ToCIDv1(cidV0) ==
    IF IsCIDv0(cidV0) THEN CidV1(cidV0[1] - CidV0Base) ELSE <<>>

\* the multihash a CID (either version) carries; 0 if it does not parse
MultihashOf(c) ==
    IF IsCIDv0(c) THEN c[1] - CidV0Base
    ELSE IF IsCIDv1(c) THEN c[1] - CidV1Base
    ELSE 0

\* a check of the name that knows CID v1 names only
IsOnlyPullableCidOnly(repoName) == IsCIDv1(repoName)

IsOnlyPullable(repoName) == IsCIDv1(repoName) \/ IsDigestHex(repoName)

\* ------------------------------------------------------------ path helpers
NoTag == <<>>
makeRepoPath(repoName) == [kind |-> "repo", name |-> repoName, tag |-> NoTag]
makeManifestLinkPath(repoName) == [kind |-> "link", name |-> repoName, tag |-> Latest]
makeBlobPath(digest) == [kind |-> "blob", name |-> digest, tag |-> NoTag]
makeDiscoFilePath(repoName) == [kind |-> "disco", name |-> repoName, tag |-> NoTag]
makeTagPathFor(repoName, tag) == [kind |-> "tag", name |-> repoName, tag |-> tag]

\* --------------------------------------------------------------- a store
\* A store holds repositories (tag links and the disco.json sidecar) and blob
\* data files. disco = <<>> means that the repository has no disco.json.
EmptyFn == [x \in {} |-> 0]
EmptyStore == [repos |-> EmptyFn, blobs |-> EmptyFn]
EmptyRepo == [tags |-> EmptyFn, disco |-> <<>>]

Override(f, g) == [x \in (DOMAIN f) \cup (DOMAIN g) |->
                        IF x \in DOMAIN f THEN f[x] ELSE g[x]]
Put(f, k, v) == [x \in (DOMAIN f) \cup {k} |-> IF x = k THEN v ELSE f[x]]
Drop(f, k) == [x \in (DOMAIN f) \ {k} |-> f[x]]

RepoOf(s, n) == IF n \in DOMAIN s.repos THEN s.repos[n] ELSE EmptyRepo

\* repository name n is the directory dir or lies below it
IsUnder(n, dir) == n = dir \/ HasPrefix(n, dir \o <<Slash>>)

HasPath(s, p) ==
    CASE p.kind = "repo" -> \E n \in DOMAIN s.repos : IsUnder(n, p.name)
      [] p.kind = "blob" -> p.name \in DOMAIN s.blobs
      [] p.kind = "disco" -> /\ p.name \in DOMAIN s.repos
                             /\ s.repos[p.name].disco # <<>>
      [] OTHER -> /\ p.name \in DOMAIN s.repos
                  /\ p.tag \in DOMAIN s.repos[p.name].tags

IsDirPath(p) == p.kind \in {"repo", "tag"}

\* a copy of a repository that leaves its disco.json behind
CopyPathNoSidecar(src, dst, p) ==
    CASE p.kind = "blob" ->
            [dst EXCEPT !.blobs = Put(dst.blobs, p.name, src.blobs[p.name])]
      [] p.kind = "repo" ->
            [dst EXCEPT !.repos = Put(dst.repos, p.name,
                [tags |-> Override(src.repos[p.name].tags, RepoOf(dst, p.name).tags),
                 disco |-> RepoOf(dst, p.name).disco])]
      [] p.kind = "disco" ->
            [dst EXCEPT !.repos = Put(dst.repos, p.name,
                [RepoOf(dst, p.name) EXCEPT !.disco = src.repos[p.name].disco])]
      [] OTHER ->
            [dst EXCEPT !.repos = Put(dst.repos, p.name,
                [RepoOf(dst, p.name) EXCEPT
                    !.tags = Put(@, p.tag, src.repos[p.name].tags[p.tag])])]

\* every regular file under path p of store src written to the same path of dst;
\* a directory that holds no regular file (EmptyRepo) gives nothing to write
CopyPath(src, dst, p) ==
    CASE p.kind = "blob" ->
            [dst EXCEPT !.blobs = Put(dst.blobs, p.name, src.blobs[p.name])]
      [] p.kind = "repo" ->
            IF src.repos[p.name] = EmptyRepo THEN dst
            ELSE [dst EXCEPT !.repos = Put(dst.repos, p.name,
                [tags |-> Override(src.repos[p.name].tags, RepoOf(dst, p.name).tags),
                 disco |-> IF src.repos[p.name].disco # <<>>
                           THEN src.repos[p.name].disco
                           ELSE RepoOf(dst, p.name).disco])]
      [] p.kind = "disco" ->
            [dst EXCEPT !.repos = Put(dst.repos, p.name,
                [RepoOf(dst, p.name) EXCEPT !.disco = src.repos[p.name].disco])]
      [] OTHER ->
            [dst EXCEPT !.repos = Put(dst.repos, p.name,
                [RepoOf(dst, p.name) EXCEPT
                    !.tags = Put(@, p.tag, src.repos[p.name].tags[p.tag])])]

\* a directory copy that stopped after the _manifests tree, before disco.json
CopyPathPartial(src, dst, p) ==
    [dst EXCEPT !.repos = Put(dst.repos, p.name,
        [tags |-> Override(src.repos[p.name].tags, RepoOf(dst, p.name).tags),
         disco |-> RepoOf(dst, p.name).disco])]

\* the repositories that are neither dir nor below it
DropUnder(f, dir) == [n \in {x \in DOMAIN f : ~IsUnder(x, dir)} |-> f[n]]

\* a deletion of a repository that takes the blob data files with it
DeletePathWithBlobs(s, p) ==
    CASE p.kind = "repo" -> [s EXCEPT !.repos = DropUnder(@, p.name), !.blobs = EmptyFn]
      [] p.kind = "blob" -> [s EXCEPT !.blobs = Drop(@, p.name)]
      [] OTHER -> s

\* Delete removes the path and, for a directory, everything below it
DeletePath(s, p) ==
    CASE p.kind = "repo" -> [s EXCEPT !.repos = DropUnder(@, p.name)]
      [] p.kind = "blob" -> [s EXCEPT !.blobs = Drop(@, p.name)]
      [] OTHER -> s

\* ------------------------------------------------- the IPFS object store
\* objects is the content-addressed store of the IPFS network: the multihash
\* of a piece of content is its index in the table, so equal content has equal
\* CIDs and different content has different CIDs.
BlobObject(d) == [tags |-> EmptyFn, disco |-> <<>>, data |-> d]
RepoObject(repo) == [tags |-> repo.tags, disco |-> repo.disco, data |-> 0]

Intern(objs, o) ==
    IF \E k \in 1..Len(objs) : objs[k] = o THEN objs ELSE Append(objs, o)

HashOf(objs, o) == CHOOSE k \in 1..Len(objs) : objs[k] = o

\* blobCid / discoFile: the entries of disco.json for image i
DiscoEntry(d) == [digest |-> HexDigest(d), cid |-> CidV0(d)]
DiscoFileOf(i) ==
    <<DiscoEntry(ManifestBlob(i)), DiscoEntry(ConfigBlob(i))>>
        \o [k \in 1..Len(LayerBlobs(i)) |-> DiscoEntry(LayerBlobs(i)[k])]

\* json.NewEncoder(&buf).Encode(discoFile): the document is the array under
\* "blobs", one object per entry, each object the list of its named fields
EncodeDiscoFile(blobs) ==
    [k \in 1..Len(blobs) |->
        <<[key |-> "digest", value |-> blobs[k].digest],
          [key |-> "cid", value |-> blobs[k].cid]>>]

\* the value a JSON object gives to a struct field: the field of that name,
\* the empty string when the object has none
FieldOf(obj, key) ==
    IF \E j \in 1..Len(obj) : obj[j].key = key
    THEN obj[CHOOSE j \in 1..Len(obj) : obj[j].key = key].value
    ELSE <<>>

\* json.NewDecoder(r).Decode(&file): file.Blobs
DecodeDiscoFile(doc) ==
    [k \in 1..Len(doc) |->
        [digest |-> FieldOf(doc[k], "digest"), cid |-> FieldOf(doc[k], "cid")]]

Link(d) == Sha256Prefix \o HexDigest(d)

\* the repository another Disco instance published for the remote image
RemoteRepo(i) == [tags |-> Put(EmptyFn, Latest, Link(ManifestBlob(i))),
                  disco |-> EncodeDiscoFile(DiscoFileOf(i))]

InitObjects == [d \in AllBlobs |-> BlobObject(d)] \o <<RepoObject(RemoteRepo(2))>>

\* the objects that some other node of the IPFS network provides
RemoteObjects == {3, 4, 5, 6}

\* the objects the local nodes hold: whatever their MFS references
LocalObjects(fs, objs) ==
    {k \in 1..Len(objs) :
        \/ \E h \in DOMAIN fs.blobs : objs[k] = BlobObject(fs.blobs[h])
        \/ \E n \in DOMAIN fs.repos : objs[k] = RepoObject(fs.repos[n])}

Resolvable(fs, objs, k) ==
    /\ k \in 1..Len(objs)
    /\ (k \in RemoteObjects \/ k \in LocalObjects(fs, objs))

\* /ipfs/<cid> written at MFS path p (p is a repository or a blob data file)
CpFromIpfs(fs, objs, k, p) ==
    IF p.kind = "repo"
    THEN [fs EXCEPT !.repos = Put(@, p.name,
            [tags |-> objs[k].tags, disco |-> objs[k].disco])]
    ELSE [fs EXCEPT !.blobs = Put(@, p.name, objs[k].data)]

\* ------------------------------------------------------------- the state
VARIABLES
    mfs,        \* primary store: the MFS of the IPFS nodes, by path
    cache,      \* secondary store: the cache driver
    objects,    \* the IPFS object store (multihash -> content)
    dirSize,    \* Size() the secondary driver reports for a directory
    noClone,    \* Disco.noClone
    primaryUp,  \* the IPFS nodes behind the primary driver answer
    task,       \* per request task: position in the handler and its locals
    faults,     \* transient failures injected so far
    purges,     \* store purges so far
    served,     \* requests answered so far
    drv,        \* the composed driver as its own callers see it: the call
                \* in flight, the backend calls it made, the fan-out writer
    router,     \* the content router: its node count and the calls it answered
    fw,         \* a pipe-based FileWriter, its background write task and the
                \* syncD1ToD2 that writes to it
    nodes       \* the IPFS nodes behind a RouterClient: the calls each received

vars == <<mfs, cache, objects, dirSize, noClone, primaryUp, task, faults, purges,
          served, drv, router, fw, nodes>>

Procs == {1, 2}

IdleTask ==
    [pc |-> "idle", method |-> "", path |-> <<>>, body |-> 0,
     repoName |-> <<>>, status |-> 0, forwarded |-> FALSE,
     hook |-> "none", ret |-> "none",
     manifestDigest |-> <<>>, contentPaths |-> <<>>, idx |-> 0,
     blobs |-> <<>>, repoCid |-> <<>>, repoCidV1 |-> <<>>,
     calls |-> {}, failed |-> FALSE, shortcut |-> FALSE, priHad |-> FALSE,
     del |-> "none",
     preMfs |-> EmptyStore, preCache |-> EmptyStore,
     rcvMfs |-> EmptyStore, rcvCache |-> EmptyStore,
     wstamp |-> 0, stat |-> "none", lateFail |-> <<>>, okPush |-> <<>>,
     cancelled |-> FALSE]

\* a backend FileWriter: the chunks it received and what was done to it
NewWriter ==
    [chunks |-> <<>>, size |-> 0, closed |-> FALSE, cancelled |-> FALSE,
     committed |-> FALSE]

\* no call of the composed driver yet, no fan-out writer open
IdleDrv ==
    [op |-> "none", path |-> makeRepoPath(<<>>), dst |-> makeRepoPath(<<>>),
     mode |-> "none", err |-> "none", log |-> <<>>, size |-> 0,
     open |-> FALSE, wpath |-> makeRepoPath(<<>>), writesOk |-> TRUE,
     pri |-> NewWriter, sec |-> NewWriter,
     preMfs |-> EmptyStore, preCache |-> EmptyStore, n |-> 0]

\* NewRouter(1): the router of a deployment with one IPFS node
IdleRouter == [nodeCount |-> 1, calls |-> <<>>]

\* the destination path holds no file
NoFile == <<>>

\* no replication has begun and no FileWriter has been made
IdleWriter ==
    [caller |-> "none", src |-> <<>>, pos |-> 0, ret |-> "none", syncs |-> 0,
     bg |-> "none", mu |-> "free", err |-> "nil", pwClosed |-> FALSE,
     prClosed |-> FALSE, pending |-> <<>>, got |-> <<>>, size |-> 0,
     rets |-> <<>>, file |-> NoFile]

\* a RouterClient that has not been called, in front of empty nodes
IdleNodes == [files |-> {}, n |-> 0, last |-> [op |-> "none"]]

\* the stores of a fresh deployment, or of one whose clients have uploaded the
\* config and the layers of their image and are about to PUT its manifest
UploadedStore ==
    [repos |-> EmptyFn,
     blobs |-> [h \in {HexDigest(d) : d \in {2, 3}} |-> h[1] - HexBase]]

Init ==
    /\ mfs \in {EmptyStore, UploadedStore}
    /\ cache = mfs
    /\ objects = InitObjects
    /\ dirSize \in {0, 1}
    /\ noClone \in BOOLEAN
    /\ primaryUp = TRUE
    /\ task = [p \in Procs |-> IdleTask]
    /\ faults = 0
    /\ purges = 0
    /\ served = 0
    /\ drv = IdleDrv
    /\ router = IdleRouter
    /\ fw = IdleWriter
    /\ nodes = IdleNodes

\* the ways one fallible I/O call that reaches the primary or the IPFS client
\* can go: "ok", or a transient failure; with the IPFS nodes cut off it fails
BackgroundModes ==
    IF ~primaryUp THEN {"fail"}
    ELSE IF faults < MaxFaults THEN {"ok", "fail"} ELSE {"ok"}

\* the context of a request in flight has been cancelled
CtxCancelled == \E q \in DOMAIN task : task[q].cancelled

\* a call that is given the context of the request fails once it is cancelled
Modes == IF CtxCancelled THEN {"fail"} ELSE BackgroundModes

\* transient failures are counted; the failures of a cut-off primary are not
Charge(mode) ==
    faults' = IF mode = "ok" \/ ~primaryUp \/ CtxCancelled THEN faults ELSE faults + 1

\* --------------------------------------------------------- the multi-driver
\* a replication that looks at the source before it looks at the destination
ReplicateSourceFirst(d1, d2, p, mode) ==
    IF mode = "fail" THEN [err |-> "other", d2 |-> d2]
    ELSE IF ~HasPath(d1, p) THEN [err |-> "notfound", d2 |-> d2]
    ELSE IF HasPath(d2, p) THEN [err |-> "nil", d2 |-> d2]
    ELSE [err |-> "nil", d2 |-> CopyPath(d1, d2, p)]

\* Replicate(ctx, d1, d2, src, dst, false) with src = dst = p. The result is
\* the error kind and the new content of d2. mode "fail": one of its Stat
\* calls failed; mode "partial": the copy failed midway.
Replicate(d1, d2, p, mode) ==
    IF mode = "fail" THEN [err |-> "other", d2 |-> d2]
    ELSE IF HasPath(d2, p) THEN [err |-> "nil", d2 |-> d2]
    ELSE IF ~HasPath(d1, p) THEN [err |-> "notfound", d2 |-> d2]
    ELSE IF mode = "partial"
         THEN [err |-> "other",
               d2 |-> IF p.kind = "repo" THEN CopyPathPartial(d1, d2, p) ELSE d2]
    ELSE [err |-> "nil", d2 |-> CopyPath(d1, d2, p)]

\* the modes Replicate can take for path p: the copy can only fail midway
\* when there is a copy
ReplicateModes(d1, d2, p) ==
    BackgroundModes \cup (IF faults < MaxFaults /\ primaryUp /\ ~HasPath(d2, p) /\ HasPath(d1, p)
                THEN {"partial"} ELSE {})

\* the modes of a replication into the secondary: the primary is reached only
\* when the secondary lacks the path
ReplicateInSecondaryModes(p) ==
    IF primaryUp THEN ReplicateModes(mfs, cache, p)
    ELSE IF HasPath(cache, p) THEN {"ok"} ELSE {"fail"}

\* the Stat of the destination that follows a Replicate without error
StatAfter(r, p) ==
    IF r.err = "nil" /\ ~HasPath(r.d2, p) THEN [r EXCEPT !.err = "notfound"] ELSE r

ReplicateInSecondary(p, mode) == StatAfter(Replicate(mfs, cache, p, mode), p)
ReplicateInPrimary(p, mode) == StatAfter(Replicate(cache, mfs, p, mode), p)

\* a secondary that reports every file as empty
FileInfoOfEmpty(p) == [isDir |-> IsDirPath(p), size |-> 0]

\* storagedriver.FileInfo of the secondary for a path that exists
FileInfoOf(p) == [isDir |-> IsDirPath(p), size |-> IF IsDirPath(p) THEN dirSize ELSE 1]

\* a Stat that is answered by the primary and leaves the secondary alone
DriverStatFromPrimary(p, mode) ==
    [err |-> IF mode # "ok" THEN "other"
             ELSE IF HasPath(mfs, p) \/ HasPath(cache, p) THEN "nil" ELSE "notfound",
     d2 |-> cache, info |-> FileInfoOf(p)]

\* driver.Stat of the multi-driver: replicate, then the secondary's answer
DriverStat(p, mode) ==
    LET r == ReplicateInSecondary(p, mode)
    IN [err |-> r.err, d2 |-> r.d2, info |-> FileInfoOf(p)]

\* a Delete that never reaches the secondary
DriverDeletePrimaryOnly(p, mode) ==
    [mfs |-> IF mode = "failPrimary" THEN mfs ELSE DeletePath(mfs, p),
     cache |-> cache]

\* driver.Delete of the multi-driver: the primary first, the secondary only
\* after the primary delete went through
DriverDelete(p, mode) ==
    [mfs |-> IF mode = "failPrimary" THEN mfs ELSE DeletePath(mfs, p),
     cache |-> IF mode = "ok" THEN DeletePath(cache, p) ELSE cache]

DeleteModes ==
    IF ~primaryUp \/ CtxCancelled THEN {"failPrimary"}
    ELSE IF faults < MaxFaults THEN {"ok", "failPrimary", "failSecondary"} ELSE {"ok"}

\* ------------------------------------------------------------ the requests
PushNames == {MyRepo, OtherRepo}
Tags == {Latest, TagV1, LatestV1}

ManifestPath(n, t) == <<V2, n, ManifestsSeg, t>>
UploadPath(n) == <<V2, n, BlobsSeg, UploadsSeg>>

\* strings.Contains(r.URL.Path, "/manifests/latest")
ContainsManifestsLatest(path) ==
    \E i \in 1..(Len(path) - 1) :
        path[i] = ManifestsSeg /\ HasPrefix(path[i + 1], Latest)

\* strings.Contains(r.URL.Path, "/manifests/")
ContainsManifests(path) ==
    \E i \in 1..(Len(path) - 1) : path[i] = ManifestsSeg

\* strings.Split(r.URL.Path[1:], "/")[1]
RepoNameOf(path) == path[2]

\* a CID v1 that no node of the network provides
UnknownCid == CidV1(99)

\* the CID v1 names a client can know of: the published remote image and
\* whatever the stores list
KnownCids ==
    {CidV1(6)} \cup {n \in (DOMAIN mfs.repos) \cup (DOMAIN cache.repos) : IsCIDv1(n)}

CanonicalNames == {HexDigest(ManifestBlob(1))} \cup KnownCids

\* the requests of the clients: pushes of the local image under arbitrary
\* names and tags, attempted pushes to canonical names, blob uploads, pulls
Requests ==
    [method : {"PUT"},
     path : {ManifestPath(MyRepo, t) : t \in Tags}
            \cup {ManifestPath(OtherRepo, Latest)}
            \cup {ManifestPath(n, t) : n \in CanonicalNames, t \in Tags},
     body : LocalImages]
    \cup [method : {"PUT"}, path : {UploadPath(MyRepo)},
          body : {ConfigBlob(1)} \cup {LayerBlobs(1)[k] : k \in 1..Len(LayerBlobs(1))}]
    \cup [method : {"PUT"}, path : {UploadPath(HexDigest(ManifestBlob(1)))},
          body : {ConfigBlob(1)}]
    \cup [method : {"GET"}, path : {ManifestPath(n, Latest) : n \in {MyRepo} \cup CanonicalNames},
          body : {0}]
    \cup [method : {"HEAD"}, path : {ManifestPath(CidV1(6), Latest)}, body : {0}]
    \cup [method : {"GET"}, path : {ManifestPath(UnknownCid, Latest)}, body : {0}]

Idle == \A q \in Procs : task[q].pc = "idle"

SetTask(p, t) == task' = [task EXCEPT ![p] = t]

\* a request arrives; requests are handled one after the other
Receive(p, r) ==
    /\ p = 1
    /\ Idle
    /\ served < MaxRequests
    /\ SetTask(p, [IdleTask EXCEPT !.pc = "pre", !.method = r.method,
                                   !.path = r.path, !.body = r.body,
                                   !.rcvMfs = mfs, !.rcvCache = cache,
                                   !.lateFail = task[p].lateFail,
                                   !.okPush = task[p].okPush])
    /\ UNCHANGED <<mfs, cache, objects, dirSize, noClone, primaryUp, faults, purges, served, drv, router, fw, nodes>>

\* preHandle: reject pushes to pullable-only names, clone before a pull
PreHandle(p) ==
    LET t == task[p] IN
    /\ t.pc = "pre"
    /\ IF t.method = "PUT" /\ ContainsManifestsLatest(t.path)
          /\ IsOnlyPullable(RepoNameOf(t.path))
       THEN SetTask(p, [t EXCEPT !.pc = "done", !.status = 401])
       ELSE IF t.method \in {"HEAD", "GET"} /\ ContainsManifests(t.path)
       THEN SetTask(p, [t EXCEPT !.pc = "c_filter", !.hook = "clone",
                                 !.repoName = RepoNameOf(t.path),
                                 !.preMfs = mfs, !.preCache = cache])
       ELSE SetTask(p, [t EXCEPT !.pc = "serve"])
    /\ UNCHANGED <<mfs, cache, objects, dirSize, noClone, primaryUp, faults, purges, served, drv, router, fw, nodes>>

\* rp.ServeHTTP: the embedded distribution server serves the request through
\* the multi-driver
IsUpload(t) == t.method = "PUT" /\ Len(t.path) = 4 /\ t.path[3] = BlobsSeg
IsManifestPut(t) ==
    t.method = "PUT" /\ Len(t.path) >= 4 /\ t.path[Len(t.path) - 1] = ManifestsSeg

\* the repository a manifest request addresses, as the router of the embedded
\* server reads it: everything between /v2/ and /manifests/
ServerRepoName(path) == Join(SubSeq(path, 2, Len(path) - 2))

ServeUpload(p) ==
    LET t == task[p]
        bp == makeBlobPath(HexDigest(t.body))
    IN
    /\ t.pc = "serve"
    /\ IsUpload(t)
    /\ \E mode \in Modes :
        /\ Charge(mode)
        /\ IF mode = "ok"
           THEN /\ mfs' = [mfs EXCEPT !.blobs = Put(@, bp.name, t.body)]
                /\ cache' = [cache EXCEPT !.blobs = Put(@, bp.name, t.body)]
                /\ SetTask(p, [t EXCEPT !.pc = "post", !.forwarded = TRUE, !.status = 201])
           ELSE /\ UNCHANGED <<mfs, cache>>
                /\ SetTask(p, [t EXCEPT !.pc = "post", !.forwarded = TRUE, !.status = 500])
    /\ UNCHANGED <<objects, dirSize, noClone, primaryUp, purges, served, drv, router, fw, nodes>>

\* the blobs a manifest PUT of image i refers to, which the server stats
ReferredBlobs(i) == {ConfigBlob(i)} \cup {LayerBlobs(i)[k] : k \in 1..Len(LayerBlobs(i))}

RECURSIVE ReplicateAll(_, _, _)
ReplicateAll(d1, d2, ps) ==
    IF ps = {} THEN d2
    ELSE LET q == CHOOSE x \in ps : TRUE
         IN ReplicateAll(d1, Replicate(d1, d2, q, "ok").d2, ps \ {q})

ServeManifestPut(p) ==
    LET t == task[p]
        n == ServerRepoName(t.path)
        tag == t.path[Len(t.path)]
        m == ManifestBlob(t.body)
        refs == {makeBlobPath(HexDigest(d)) : d \in ReferredBlobs(t.body)}
        statted == ReplicateAll(mfs, cache, refs)
        mp == makeBlobPath(HexDigest(m))
        write(s) == [s EXCEPT !.blobs = Put(@, mp.name, m),
                              !.repos = Put(@, n, [RepoOf(s, n) EXCEPT
                                                     !.tags = Put(@, tag, Link(m))])]
    IN
    /\ t.pc = "serve"
    /\ IsManifestPut(t)
    /\ \E mode \in Modes :
        /\ Charge(mode)
        /\ IF mode = "fail"
           THEN /\ UNCHANGED <<mfs, cache>>
                /\ SetTask(p, [t EXCEPT !.pc = "post", !.forwarded = TRUE, !.status = 500])
           ELSE IF \E q \in refs : ~HasPath(statted, q)
           THEN /\ cache' = statted
                /\ UNCHANGED mfs
                /\ SetTask(p, [t EXCEPT !.pc = "post", !.forwarded = TRUE, !.status = 400])
           ELSE /\ cache' = write(statted)
                /\ mfs' = write(mfs)
                /\ SetTask(p, [t EXCEPT !.pc = "post", !.forwarded = TRUE, !.status = 201,
                                        !.wstamp = 1 + (CHOOSE w \in {task[q].wstamp : q \in Procs} :
                                                    \A q \in Procs : task[q].wstamp <= w)])
    /\ UNCHANGED <<objects, dirSize, noClone, primaryUp, purges, served, drv, router, fw, nodes>>

\* a server that reads the secondary alone and never fills it
ServeManifestGetCacheOnly(p) ==
    LET t == task[p]
        lp == makeTagPathFor(t.path[2], t.path[4])
        found == /\ HasPath(cache, lp)
                 /\ HasPath(cache, makeBlobPath(SubSeq(cache.repos[lp.name].tags[lp.tag], 8, 8)))
    IN
    /\ t.pc = "serve"
    /\ t.method \in {"GET", "HEAD"}
    /\ SetTask(p, [t EXCEPT !.pc = "post", !.forwarded = TRUE,
                            !.status = IF found THEN 200 ELSE 404])
    /\ UNCHANGED <<mfs, cache, objects, dirSize, noClone, primaryUp, faults, purges, served, drv, router, fw, nodes>>

ServeManifestGet(p) ==
    LET t == task[p]
        n == t.path[2]
        lp == makeTagPathFor(n, t.path[4])
        c1 == Replicate(mfs, cache, lp, "ok")
        digest == SubSeq(c1.d2.repos[n].tags[t.path[4]], 8, 8)
        c2 == Replicate(mfs, c1.d2, makeBlobPath(digest), "ok")
    IN
    /\ t.pc = "serve"
    /\ t.method \in {"GET", "HEAD"}
    /\ \E mode \in (IF primaryUp THEN Modes
                    ELSE IF HasPath(cache, lp) /\ HasPath(cache, makeBlobPath(digest))
                         THEN {"ok"} ELSE {"fail"}) :
        /\ Charge(mode)
        /\ IF mode = "fail"
           THEN /\ UNCHANGED cache
                /\ SetTask(p, [t EXCEPT !.pc = "post", !.forwarded = TRUE, !.status = 500])
           ELSE IF c1.err # "nil"
           THEN /\ UNCHANGED cache
                /\ SetTask(p, [t EXCEPT !.pc = "post", !.forwarded = TRUE, !.status = 404])
           ELSE /\ cache' = c2.d2
                /\ SetTask(p, [t EXCEPT !.pc = "post", !.forwarded = TRUE,
                                        !.status = IF c2.err = "nil" THEN 200 ELSE 404])
    /\ UNCHANGED <<mfs, objects, dirSize, noClone, primaryUp, purges, served, drv, router, fw, nodes>>

\* postHandle: make the repository global after a PUT of manifests/latest
PostHandle(p) ==
    LET t == task[p] IN
    /\ t.pc = "post"
    /\ IF t.method = "PUT" /\ ContainsManifestsLatest(t.path)
       THEN SetTask(p, [t EXCEPT !.pc = "m_link", !.hook = "make",
                                 !.repoName = RepoNameOf(t.path),
                                 !.preMfs = mfs, !.preCache = cache])
       ELSE SetTask(p, [t EXCEPT !.pc = "done"])
    /\ UNCHANGED <<mfs, cache, objects, dirSize, noClone, primaryUp, faults, purges, served, drv, router, fw, nodes>>

\* the response is out; the task is free again
Finish(p) ==
    /\ task[p].pc = "done"
    /\ SetTask(p, [IdleTask EXCEPT !.lateFail = task[p].lateFail,
                                   !.okPush = task[p].okPush])
    /\ served' = served + 1
    /\ UNCHANGED <<mfs, cache, objects, dirSize, noClone, primaryUp, faults, purges, drv, router, fw, nodes>>

\* ---------------------------------------------------------- MakeGlobalRepo
\* digestFromLink: the content of the link file without its first 7 bytes
digestFromLink(b) == SubSeq(b, 8, Len(b))

\* string(b)[7:] is a run-time panic when the file has fewer than 7 bytes
LinkPanics(b) == Len(b) < 7

\* populateBlobFilePaths: manifest, config, then the layers in manifest order
populateBlobFilePaths(manifestDigest, manifest) ==
    <<makeBlobPath(manifestDigest), makeBlobPath(SubSeq(manifest.config, 8, Len(manifest.config)))>>
        \o [k \in 1..Len(manifest.layers) |->
                makeBlobPath(SubSeq(manifest.layers[k], 8, Len(manifest.layers[k])))]

\* getBlobCid: the hash FilesStat reports for the blob data file
getBlobCid(digest) == CidV0(HashOf(objects, BlobObject(mfs.blobs[digest])))

\* a list that names the config before the manifest
populateBlobsWithCidsConfigFirst(manifestDigest, manifest) ==
    LET paths == populateBlobFilePaths(manifestDigest, manifest)
        order == <<2, 1>> \o [k \in 1..(Len(paths) - 2) |-> k + 2]
    IN [k \in 1..Len(paths) |->
            [digest |-> paths[order[k]].name, cid |-> getBlobCid(paths[order[k]].name)]]

\* populateBlobsWithCids: the entries of disco.json, in the same order
populateBlobsWithCids(manifestDigest, manifest) ==
    LET paths == populateBlobFilePaths(manifestDigest, manifest)
    IN [k \in 1..Len(paths) |->
            [digest |-> paths[k].name, cid |-> getBlobCid(paths[k].name)]]

\* a post-handler that answers 500 when MakeGlobalRepo returns an error
MakeReturnAnswering(t, ret, stepFailed) ==
    [t EXCEPT !.pc = "m_defer", !.ret = ret, !.failed = stepFailed,
              !.status = IF ret = "err" THEN 500 ELSE @,
              !.lateFail = IF ret = "err" /\ t.pc \in {"m_tag", "m_repsec"}
                           THEN t.manifestDigest ELSE @,
              !.okPush = IF ret = "ok" /\ t.status = 201 THEN t.manifestDigest ELSE @]

\* a return statement of MakeGlobalRepo: the deferred Delete runs next
MakeReturn(t, ret, stepFailed) ==
    [t EXCEPT !.pc = "m_defer", !.ret = ret, !.failed = stepFailed,
              !.lateFail = IF ret = "err" /\ t.pc \in {"m_tag", "m_repsec"}
                           THEN t.manifestDigest ELSE @,
              !.okPush = IF ret = "ok" /\ t.status = 201 THEN t.manifestDigest ELSE @]

\* step #1: manifestDigest, err := disco.digestFromLink(...)
MLink(p) ==
    LET t == task[p]
        lp == makeManifestLinkPath(t.repoName)
    IN
    /\ t.pc = "m_link"
    /\ \E mode \in Modes :
        /\ Charge(mode)
        /\ IF mode = "fail" \/ ~HasPath(mfs, lp)
           THEN SetTask(p, MakeReturn(t, "err", TRUE))
           ELSE IF LinkPanics(mfs.repos[t.repoName].tags[Latest])
           THEN SetTask(p, MakeReturn(t, "panic", TRUE))
           ELSE SetTask(p, [t EXCEPT !.pc = "m_stat",
                    !.manifestDigest = digestFromLink(mfs.repos[t.repoName].tags[Latest])])
    /\ UNCHANGED <<mfs, cache, objects, dirSize, noClone, primaryUp, purges, served, drv, router, fw, nodes>>

\* stat, err := driver.Stat(ctx, manifestDigestRepoPath): already made global?
MStat(p) ==
    LET t == task[p]
        dp == makeRepoPath(t.manifestDigest)
    IN
    /\ t.pc = "m_stat"
    /\ \E mode \in ReplicateInSecondaryModes(dp) :
        LET r == DriverStat(dp, mode) IN
        /\ Charge(mode)
        /\ cache' = r.d2
        /\ IF r.err = "nil" /\ r.info.size > 0
           THEN SetTask(p, [MakeReturn(t, "ok", FALSE) EXCEPT
                                !.shortcut = TRUE, !.priHad = HasPath(mfs, dp)])
           ELSE SetTask(p, [t EXCEPT !.pc = "m_paths"])
    /\ UNCHANGED <<mfs, objects, dirSize, noClone, primaryUp, purges, served, drv, router, fw, nodes>>

\* contentPaths, err := disco.populateBlobFilePaths(ctx, driver, manifestDigest)
MPaths(p) ==
    LET t == task[p]
        bp == makeBlobPath(t.manifestDigest)
    IN
    /\ t.pc = "m_paths"
    /\ \E mode \in ReplicateInSecondaryModes(bp) :
        LET r == ReplicateInSecondary(bp, mode) IN
        /\ Charge(mode)
        /\ cache' = r.d2
        /\ IF r.err # "nil"
           THEN SetTask(p, MakeReturn(t, "err", TRUE))
           ELSE SetTask(p, [t EXCEPT !.pc = "m_reppri", !.idx = 1,
                    !.contentPaths =
                        populateBlobFilePaths(t.manifestDigest,
                                              imageManifest(r.d2.blobs[bp.name]))
                        \o <<makeRepoPath(t.repoName)>>])
    /\ UNCHANGED <<mfs, objects, dirSize, noClone, primaryUp, purges, served, drv, router, fw, nodes>>

\* disco.replicateInPrimary(driver, contentPaths), one path at a time
replicateInPrimaryResult(t, err) ==
    IF err # "nil" THEN MakeReturn(t, "ok", TRUE)
    ELSE IF t.idx = Len(t.contentPaths) THEN [t EXCEPT !.pc = "m_cids"]
    ELSE [t EXCEPT !.idx = @ + 1]

MRepPri(p) ==
    LET t == task[p]
        cp == t.contentPaths[t.idx]
    IN
    /\ t.pc = "m_reppri"
    /\ \E mode \in ReplicateModes(cache, mfs, cp) :
        LET r == ReplicateInPrimary(cp, mode) IN
        /\ Charge(mode)
        /\ mfs' = r.d2
        /\ SetTask(p, replicateInPrimaryResult(t, r.err))
    /\ UNCHANGED <<cache, objects, dirSize, noClone, primaryUp, purges, served, drv, router, fw, nodes>>

\* blobs, err := disco.populateBlobsWithCids(ctx, manifestDigest)
MCids(p) ==
    LET t == task[p]
        bp == makeBlobPath(t.manifestDigest)
    IN
    /\ t.pc = "m_cids"
    /\ \E mode \in Modes :
        /\ Charge(mode)
        /\ IF \/ mode = "fail"
              \/ ~HasPath(mfs, bp)
              \/ \E k \in 1..(Len(t.contentPaths) - 1) : ~HasPath(mfs, t.contentPaths[k])
           THEN SetTask(p, MakeReturn(t, "err", TRUE))
           ELSE SetTask(p, [t EXCEPT !.pc = "m_write",
                    !.blobs = populateBlobsWithCids(t.manifestDigest,
                                                    imageManifest(mfs.blobs[bp.name]))])
    /\ UNCHANGED <<mfs, cache, objects, dirSize, noClone, primaryUp, purges, served, drv, router, fw, nodes>>

\* disco.writeDiscoFile(ctx, repoName, &discoFile{Blobs: blobs})
MWrite(p) ==
    LET t == task[p] IN
    /\ t.pc = "m_write"
    /\ \E mode \in Modes :
        /\ Charge(mode)
        /\ IF mode = "fail" \/ ~HasPath(mfs, makeRepoPath(t.repoName))
           THEN /\ SetTask(p, MakeReturn(t, "err", TRUE))
                /\ UNCHANGED mfs
           ELSE /\ mfs' = [mfs EXCEPT !.repos[t.repoName].disco = EncodeDiscoFile(t.blobs)]
                /\ SetTask(p, [t EXCEPT !.pc = "m_getcid", !.calls = @ \cup {"write"}])
    /\ UNCHANGED <<cache, objects, dirSize, noClone, primaryUp, purges, served, drv, router, fw, nodes>>

\* step #2: repoCid, err := disco.getCid(ctx, uploadRepoPath); utils.ToCIDv1
MGetCid(p) ==
    LET t == task[p]
        objs == Intern(objects, RepoObject(mfs.repos[t.repoName]))
        cid == CidV0(HashOf(objs, RepoObject(mfs.repos[t.repoName])))
    IN
    /\ t.pc = "m_getcid"
    /\ \E mode \in Modes :
        /\ Charge(mode)
        /\ IF mode = "fail" \/ ~HasPath(mfs, makeRepoPath(t.repoName))
           THEN /\ SetTask(p, MakeReturn(t, "err", TRUE))
                /\ UNCHANGED objects
           ELSE IF ToCIDv1(cid) = <<>>
           THEN /\ SetTask(p, MakeReturn(t, "err", TRUE))
                /\ objects' = objs
           ELSE /\ objects' = objs
                /\ SetTask(p, [t EXCEPT !.pc = "m_cidrm", !.repoCid = cid,
                                        !.repoCidV1 = ToCIDv1(cid)])
    /\ UNCHANGED <<mfs, cache, dirSize, noClone, primaryUp, purges, served, drv, router, fw, nodes>>

\* FilesMkdir(repositoriesBase); FilesRm(dst, true): both errors are dropped
RmBeforeCp(p, at, dst, next) ==
    LET t == task[p] IN
    /\ t.pc = at
    /\ \E mode \in Modes :
        /\ Charge(mode)
        /\ mfs' = IF mode = "ok" THEN DeletePath(mfs, dst) ELSE mfs
        /\ SetTask(p, [t EXCEPT !.pc = next, !.calls = @ \cup {"mkdir", "rm"}])
    /\ UNCHANGED <<cache, objects, dirSize, noClone, primaryUp, purges, served, drv, router, fw, nodes>>

\* FilesCp("/ipfs/<repoCid>", dst); tolerant: "already has entry" is not an error
CpRepo(p, at, dst, next, tolerant) ==
    LET t == task[p]
        k == MultihashOf(t.repoCid)
    IN
    /\ t.pc = at
    /\ \E mode \in Modes :
        /\ Charge(mode)
        /\ IF mode = "fail" \/ ~Resolvable(mfs, objects, k)
           THEN /\ SetTask(p, [MakeReturn(t, "err", TRUE) EXCEPT !.calls = @ \cup {"cp"}])
                /\ UNCHANGED mfs
           ELSE IF HasPath(mfs, dst)
           THEN /\ SetTask(p, [(IF tolerant THEN [t EXCEPT !.pc = next]
                                ELSE MakeReturn(t, "err", TRUE))
                               EXCEPT !.calls = @ \cup {"cp"}])
                /\ UNCHANGED mfs
           ELSE /\ mfs' = CpFromIpfs(mfs, objects, k, dst)
                /\ SetTask(p, [t EXCEPT !.pc = next, !.calls = @ \cup {"cp"}])
    /\ UNCHANGED <<cache, objects, dirSize, noClone, primaryUp, purges, served, drv, router, fw, nodes>>

MCidRm(p) == RmBeforeCp(p, "m_cidrm", makeRepoPath(task[p].repoCidV1), "m_cidcp")
MCidCp(p) == CpRepo(p, "m_cidcp", makeRepoPath(task[p].repoCidV1), "m_digrm", TRUE)
\* step #3
MDigRm(p) == RmBeforeCp(p, "m_digrm", makeRepoPath(task[p].manifestDigest), "m_digcp")
MDigCp(p) == CpRepo(p, "m_digcp", makeRepoPath(task[p].manifestDigest), "m_tag", FALSE)

\* step #4: disco.createTagForLatest(ctx, manifestDigest, repoCidV1)
createTagForLatest(fs, repoName, tag) ==
    [fs EXCEPT !.repos[repoName].tags = Put(@, tag, fs.repos[repoName].tags[Latest])]

MTag(p) ==
    LET t == task[p]
        src == makeTagPathFor(t.manifestDigest, Latest)
        dst == makeTagPathFor(t.manifestDigest, t.repoCidV1)
    IN
    /\ t.pc = "m_tag"
    /\ \E mode \in Modes :
        /\ Charge(mode)
        /\ IF mode = "fail" \/ ~HasPath(mfs, src) \/ HasPath(mfs, dst)
           THEN /\ SetTask(p, [MakeReturn(t, "err", TRUE) EXCEPT !.calls = @ \cup {"cp"}])
                /\ UNCHANGED mfs
           ELSE /\ mfs' = createTagForLatest(mfs, t.manifestDigest, t.repoCidV1)
                /\ SetTask(p, [t EXCEPT !.pc = "m_repsec", !.idx = 1,
                        !.calls = @ \cup {"cp"},
                        !.contentPaths = <<makeRepoPath(t.manifestDigest),
                                           makeRepoPath(t.repoCidV1)>>])
    /\ UNCHANGED <<cache, objects, dirSize, noClone, primaryUp, purges, served, drv, router, fw, nodes>>

\* disco.replicateInSecondary(driver, contentPaths), one path at a time
MRepSec(p) ==
    LET t == task[p]
        cp == t.contentPaths[t.idx]
    IN
    /\ t.pc = "m_repsec"
    /\ \E mode \in ReplicateInSecondaryModes(cp) :
        LET r == ReplicateInSecondary(cp, mode) IN
        /\ Charge(mode)
        /\ cache' = r.d2
        /\ SetTask(p, IF r.err # "nil" THEN MakeReturn(t, "err", TRUE)
                      ELSE IF t.idx = Len(t.contentPaths) THEN MakeReturn(t, "ok", FALSE)
                      ELSE [t EXCEPT !.idx = @ + 1])
    /\ UNCHANGED <<mfs, objects, dirSize, noClone, primaryUp, purges, served, drv, router, fw, nodes>>

\* step #5, deferred: _ = driver.Delete(ctx, uploadRepoPath)
MDefer(p) ==
    LET t == task[p] IN
    /\ t.pc = "m_defer"
    /\ IF ~IsCIDv1(t.repoName) /\ ~IsDigestHex(t.repoName)
       THEN \E mode \in DeleteModes :
                LET r == DriverDelete(makeRepoPath(t.repoName), mode) IN
                /\ Charge(mode)
                /\ mfs' = r.mfs
                /\ cache' = r.cache
                /\ SetTask(p, [t EXCEPT !.pc = "done", !.calls = @ \cup {"delete"},
                                        !.del = IF mode = "ok" THEN "ok" ELSE "err"])
       ELSE /\ SetTask(p, [t EXCEPT !.pc = "done"])
            /\ UNCHANGED <<mfs, cache, faults>>
    /\ UNCHANGED <<objects, dirSize, noClone, primaryUp, purges, served, drv, router, fw, nodes>>

MakeGlobalRepo(p) ==
    \/ MLink(p) \/ MStat(p) \/ MPaths(p) \/ MRepPri(p) \/ MCids(p) \/ MWrite(p)
    \/ MGetCid(p) \/ MCidRm(p) \/ MCidCp(p) \/ MDigRm(p) \/ MDigCp(p) \/ MTag(p)
    \/ MRepSec(p) \/ MDefer(p)

\* --------------------------------------------------------- CloneGlobalRepo
\* a pre-handler that forwards the request whatever the clone returned
CloneReturnForwardAll(t, ret, stepFailed) ==
    [t EXCEPT !.pc = "serve", !.ret = ret, !.failed = stepFailed]

\* a return statement of CloneGlobalRepo, and what preHandle does with it:
\* an error is answered with 500, otherwise the request goes on to the server
CloneReturn(t, ret, stepFailed) ==
    IF ret = "err"
    THEN [t EXCEPT !.pc = "done", !.ret = "err", !.status = 500, !.failed = stepFailed]
    ELSE [t EXCEPT !.pc = "serve", !.ret = "ok", !.failed = stepFailed]

\* step #1: names that are not CID v1 are left to the distribution server
CFilter(p) ==
    LET t == task[p] IN
    /\ t.pc = "c_filter"
    /\ IF ~IsCIDv1(t.repoName)
       THEN SetTask(p, CloneReturn(t, "ok", FALSE))
       ELSE SetTask(p, [t EXCEPT !.pc = "c_stat"])
    /\ UNCHANGED <<mfs, cache, objects, dirSize, noClone, primaryUp, faults, purges, served, drv, router, fw, nodes>>

\* stat, err := driver.Stat(ctx, makeDiscoFilePath(repoName))
CStat(p) ==
    LET t == task[p]
        dfp == makeDiscoFilePath(t.repoName)
    IN
    /\ t.pc = "c_stat"
    /\ \E mode \in ReplicateInSecondaryModes(dfp) :
        LET r == DriverStat(dfp, mode) IN
        /\ Charge(mode)
        /\ cache' = r.d2
        /\ SetTask(p,
                CASE r.err = "nil" ->
                        IF ~r.info.isDir /\ r.info.size > 0
                        THEN [CloneReturn(t, "ok", FALSE) EXCEPT !.shortcut = TRUE,
                                                                 !.stat = "nil"]
                        ELSE [t EXCEPT !.pc = "c_noclone", !.stat = "nil"]
                  [] r.err = "notfound" -> [t EXCEPT !.pc = "c_tryrep", !.stat = "notfound"]
                  [] OTHER -> [CloneReturn(t, "err", TRUE) EXCEPT !.stat = "other"])
    /\ UNCHANGED <<mfs, objects, dirSize, noClone, primaryUp, purges, served, drv, router, fw, nodes>>

\* err = disco.tryReplicateInSecondary(ctx, makeRepoPath(repoName))
CTryRep(p) ==
    LET t == task[p]
        rp == makeRepoPath(t.repoName)
    IN
    /\ t.pc = "c_tryrep"
    /\ \E mode \in ReplicateInSecondaryModes(rp) :
        LET r == ReplicateInSecondary(rp, mode) IN
        /\ Charge(mode)
        /\ cache' = r.d2
        /\ SetTask(p, IF r.err = "nil" THEN CloneReturn(t, "ok", FALSE)
                      ELSE [t EXCEPT !.pc = "c_noclone"])
    /\ UNCHANGED <<mfs, objects, dirSize, noClone, primaryUp, purges, served, drv, router, fw, nodes>>

\* a clone that goes on to the network whatever the flag says
CNoCloneIgnored(p) ==
    /\ task[p].pc = "c_noclone"
    /\ SetTask(p, [task[p] EXCEPT !.pc = "c_cp"])
    /\ UNCHANGED <<mfs, cache, objects, dirSize, noClone, primaryUp, faults, purges, served, drv, router, fw, nodes>>

\* if disco.noClone { return nil }
CNoClone(p) ==
    LET t == task[p] IN
    /\ t.pc = "c_noclone"
    /\ IF noClone
       THEN SetTask(p, CloneReturn(t, "ok", FALSE))
       ELSE SetTask(p, [t EXCEPT !.pc = "c_cp"])
    /\ UNCHANGED <<mfs, cache, objects, dirSize, noClone, primaryUp, faults, purges, served, drv, router, fw, nodes>>

\* a readDiscoFile that makes the repository directory before the copy and
\* leaves it behind when the copy fails
CCpLeavesDir(p) ==
    LET t == task[p]
        rp == makeRepoPath(t.repoName)
        k == MultihashOf(t.repoName)
    IN
    /\ t.pc = "c_cp"
    /\ \E mode \in Modes :
        /\ Charge(mode)
        /\ IF HasPath(mfs, makeDiscoFilePath(t.repoName)) /\ mode = "ok"
           THEN /\ SetTask(p, [t EXCEPT !.pc = "c_read"])
                /\ UNCHANGED mfs
           ELSE IF mode = "fail" \/ ~Resolvable(mfs, objects, k) \/ HasPath(mfs, rp)
           THEN /\ SetTask(p, [CloneReturn(t, "err", TRUE) EXCEPT
                                    !.calls = @ \cup {"mkdir", "cp"}])
                /\ mfs' = [mfs EXCEPT !.repos = Put(@, rp.name, RepoOf(mfs, rp.name))]
           ELSE /\ mfs' = CpFromIpfs(mfs, objects, k, rp)
                /\ SetTask(p, [t EXCEPT !.pc = "c_read",
                                        !.calls = @ \cup {"mkdir", "cp"}])
    /\ UNCHANGED <<cache, objects, dirSize, noClone, primaryUp, purges, served, drv, router, fw, nodes>>

\* readDiscoFile, first half: copy the repository from the network when the
\* node does not have its disco.json
CCp(p) ==
    LET t == task[p]
        rp == makeRepoPath(t.repoName)
        k == MultihashOf(t.repoName)
    IN
    /\ t.pc = "c_cp"
    /\ \E mode \in Modes :
        /\ Charge(mode)
        /\ IF HasPath(mfs, makeDiscoFilePath(t.repoName)) /\ mode = "ok"
           THEN /\ SetTask(p, [t EXCEPT !.pc = "c_read"])
                /\ UNCHANGED mfs
           ELSE IF mode = "fail" \/ ~Resolvable(mfs, objects, k) \/ HasPath(mfs, rp)
           THEN /\ SetTask(p, [CloneReturn(t, "err", TRUE) EXCEPT
                                    !.calls = @ \cup {"mkdir", "cp"}])
                /\ UNCHANGED mfs
           ELSE /\ mfs' = CpFromIpfs(mfs, objects, k, rp)
                /\ SetTask(p, [t EXCEPT !.pc = "c_read",
                                        !.calls = @ \cup {"mkdir", "cp"}])
    /\ UNCHANGED <<cache, objects, dirSize, noClone, primaryUp, purges, served, drv, router, fw, nodes>>

\* readDiscoFile, second half: read and decode disco.json
CRead(p) ==
    LET t == task[p] IN
    /\ t.pc = "c_read"
    /\ \E mode \in Modes :
        /\ Charge(mode)
        /\ IF mode = "fail" \/ ~HasPath(mfs, makeDiscoFilePath(t.repoName))
           THEN SetTask(p, CloneReturn(t, "err", TRUE))
           ELSE SetTask(p, [t EXCEPT !.pc = "c_blob", !.idx = 1,
                                     !.blobs = DecodeDiscoFile(mfs.repos[t.repoName].disco)])
    /\ UNCHANGED <<mfs, cache, objects, dirSize, noClone, primaryUp, purges, served, drv, router, fw, nodes>>

\* the replication that ends CloneGlobalRepo: the repository, then the blobs
CloneContentPaths(t) ==
    <<makeRepoPath(t.repoName)>>
        \o [k \in 1..Len(t.blobs) |-> makeBlobPath(t.blobs[k].digest)]

\* step #3: one blob of disco.json: skip it if the node has it, else copy it
CBlob(p) ==
    LET t == task[p]
        b == t.blobs[t.idx]
        bp == makeBlobPath(b.digest)
        k == MultihashOf(b.cid)
        next == IF t.idx = Len(t.blobs)
                THEN [t EXCEPT !.pc = "c_repsec", !.idx = 1,
                               !.contentPaths = CloneContentPaths(t)]
                ELSE [t EXCEPT !.idx = @ + 1]
    IN
    /\ t.pc = "c_blob"
    /\ \E mode \in Modes :
        /\ Charge(mode)
        /\ IF mode = "ok" /\ HasPath(mfs, bp)
           THEN /\ SetTask(p, next)
                /\ UNCHANGED mfs
           ELSE IF mode = "fail" \/ ~Resolvable(mfs, objects, k)
           THEN /\ SetTask(p, CloneReturn(t, "err", TRUE))
                /\ UNCHANGED mfs
           ELSE /\ mfs' = CpFromIpfs(mfs, objects, k, bp)
                /\ SetTask(p, [next EXCEPT !.calls = @ \cup {"mkdir", "cp"}])
    /\ UNCHANGED <<cache, objects, dirSize, noClone, primaryUp, purges, served, drv, router, fw, nodes>>

\* return disco.replicateInSecondary(driver, contentPaths)
CRepSec(p) ==
    LET t == task[p]
        cp == t.contentPaths[t.idx]
    IN
    /\ t.pc = "c_repsec"
    /\ \E mode \in ReplicateInSecondaryModes(cp) :
        LET r == ReplicateInSecondary(cp, mode) IN
        /\ Charge(mode)
        /\ cache' = r.d2
        /\ SetTask(p, IF r.err # "nil" THEN CloneReturn(t, "err", TRUE)
                      ELSE IF t.idx = Len(t.contentPaths) THEN CloneReturn(t, "ok", FALSE)
                      ELSE [t EXCEPT !.idx = @ + 1])
    /\ UNCHANGED <<mfs, objects, dirSize, noClone, primaryUp, purges, served, drv, router, fw, nodes>>

CloneGlobalRepo(p) ==
    \/ CFilter(p) \/ CStat(p) \/ CTryRep(p) \/ CNoClone(p) \/ CCp(p) \/ CRead(p)
    \/ CBlob(p) \/ CRepSec(p)

\* ------------------------------------------------------- the environment
\* the operator wipes the IPFS nodes (primary) or the cache (secondary)
PurgePrimary ==
    /\ Idle
    /\ purges < MaxPurges
    /\ mfs # EmptyStore
    /\ mfs' = EmptyStore
    /\ purges' = purges + 1
    /\ UNCHANGED <<cache, objects, dirSize, noClone, primaryUp, task, faults, served, drv, router, fw, nodes>>

\* the IPFS nodes become unreachable and stay so
CutPrimary ==
    /\ Idle
    /\ purges < MaxPurges
    /\ primaryUp
    /\ primaryUp' = FALSE
    /\ purges' = purges + 1
    /\ UNCHANGED <<mfs, cache, objects, dirSize, noClone, task, faults, served, drv, router, fw, nodes>>

PurgeCache ==
    /\ Idle
    /\ purges < MaxPurges
    /\ cache # EmptyStore
    /\ cache' = EmptyStore
    /\ purges' = purges + 1
    /\ UNCHANGED <<mfs, objects, dirSize, noClone, primaryUp, task, faults, served, drv, router, fw, nodes>>

\* the operator removes one CID-named repository from the cache
PurgeCidRepo ==
    /\ Idle
    /\ purges < MaxPurges
    /\ \E n \in DOMAIN cache.repos :
        /\ IsCIDv1(n)
        /\ cache' = DeletePath(cache, makeRepoPath(n))
    /\ purges' = purges + 1
    /\ UNCHANGED <<mfs, objects, dirSize, noClone, primaryUp, task, faults, served, drv, router, fw, nodes>>

Next ==
    \/ \E p \in Procs : \E r \in Requests : Receive(p, r)
    \/ \E p \in Procs : PreHandle(p)
    \/ \E p \in Procs : ServeUpload(p)
    \/ \E p \in Procs : ServeManifestPut(p)
    \/ \E p \in Procs : ServeManifestGet(p)
    \/ \E p \in Procs : PostHandle(p)
    \/ \E p \in Procs : MakeGlobalRepo(p)
    \/ \E p \in Procs : CloneGlobalRepo(p)
    \/ \E p \in Procs : Finish(p)
    \/ PurgePrimary
    \/ CutPrimary
    \/ PurgeCache
    \/ PurgeCidRepo

Spec == Init /\ [][Next]_vars

\* MakeGlobalRepo called directly, as the unit tests of the service do, on a
\* repository of any name that the stores hold
CallMakeGlobalRepo(p, n) ==
    /\ p = 1
    /\ Idle
    /\ served < MaxRequests
    /\ n \in (DOMAIN mfs.repos) \cup (DOMAIN cache.repos)
    /\ SetTask(p, [IdleTask EXCEPT !.pc = "m_link", !.hook = "make", !.repoName = n,
                                   !.preMfs = mfs, !.preCache = cache,
                                   !.rcvMfs = mfs, !.rcvCache = cache,
                                   !.lateFail = task[p].lateFail,
                                   !.okPush = task[p].okPush])
    /\ UNCHANGED <<mfs, cache, objects, dirSize, noClone, primaryUp, faults, purges, served, drv, router, fw, nodes>>

NextUnit ==
    \/ Next
    \/ \E p \in Procs : \E n \in (DOMAIN mfs.repos) \cup (DOMAIN cache.repos) :
            CallMakeGlobalRepo(p, n)

SpecUnit == Init /\ [][NextUnit]_vars

\* ------------------------------------------------- cancelled requests
\* The client of a push goes away while postHandle runs MakeGlobalRepo: the
\* server cancels r.Context(), the context that postHandle hands to
\* MakeGlobalRepo.
InMakeGlobalRepo(p) ==
    /\ task[p].hook = "make"
    /\ task[p].pc \notin {"idle", "pre", "serve", "post", "done"}

CancelRequest(p) ==
    /\ InMakeGlobalRepo(p)
    /\ ~task[p].cancelled
    /\ SetTask(p, [task[p] EXCEPT !.cancelled = TRUE])
    /\ UNCHANGED <<mfs, cache, objects, dirSize, noClone, primaryUp, faults, purges, served, drv, router, fw, nodes>>

NextCancel ==
    \/ \E p \in Procs : \E r \in Requests : Receive(p, r)
    \/ \E p \in Procs : PreHandle(p)
    \/ \E p \in Procs : ServeUpload(p)
    \/ \E p \in Procs : ServeManifestPut(p)
    \/ \E p \in Procs : ServeManifestGet(p)
    \/ \E p \in Procs : PostHandle(p)
    \/ \E p \in Procs : MakeGlobalRepo(p)
    \/ \E p \in Procs : CloneGlobalRepo(p)
    \/ \E p \in Procs : CancelRequest(p)
    \/ \E p \in Procs : Finish(p)

SpecCancel == Init /\ [][NextCancel]_vars

TypeOK ==
    /\ primaryUp \in BOOLEAN
    /\ faults \in 0..MaxFaults
    /\ served \in 0..MaxRequests
    /\ purges \in 0..MaxPurges

\* ------------------------------------------------- concurrent requests
\* The HTTP server runs every request in a goroutine of its own: two pushes
\* of local images interleave step by step. No store call fails here.
ConcImages == {1, 2}

ConcStore ==
    [repos |-> EmptyFn,
     blobs |-> [h \in UNION {{HexDigest(b) : b \in ReferredBlobs(img)} : img \in ConcImages}
                    |-> h[1] - HexBase]]

InitConc ==
    /\ mfs = ConcStore
    /\ cache = ConcStore
    /\ objects = InitObjects
    /\ dirSize \in {0, 1}
    /\ noClone = FALSE
    /\ primaryUp = TRUE
    /\ task = [p \in Procs |-> IdleTask]
    /\ faults = MaxFaults
    /\ purges = MaxPurges
    /\ served = 0
    /\ drv = IdleDrv
    /\ router = IdleRouter
    /\ fw = IdleWriter
    /\ nodes = IdleNodes

ConcRequests ==
    [method : {"PUT"},
     path : {ManifestPath(n, Latest) : n \in PushNames},
     body : ConcImages]

\* each goroutine serves one request
ReceiveConc(p, r) ==
    /\ task[p].pc = "idle"
    /\ served = 0
    /\ SetTask(p, [IdleTask EXCEPT !.pc = "pre", !.method = r.method,
                                   !.path = r.path, !.body = r.body,
                                   !.rcvMfs = mfs, !.rcvCache = cache,
                                   !.lateFail = task[p].lateFail,
                                   !.okPush = task[p].okPush])
    /\ UNCHANGED <<mfs, cache, objects, dirSize, noClone, primaryUp, faults, purges, served, drv, router, fw, nodes>>

NextConc ==
    \/ \E p \in Procs : \E r \in ConcRequests : ReceiveConc(p, r)
    \/ \E p \in Procs : PreHandle(p)
    \/ \E p \in Procs : ServeManifestPut(p)
    \/ \E p \in Procs : PostHandle(p)
    \/ \E p \in Procs : MakeGlobalRepo(p)
    \/ \E p \in Procs : Finish(p)

SpecConc == InitConc /\ [][NextConc]_vars

\* ------------------------------------------- no secondary driver configured
\* driverFactory.Create with config.Cache == nil hands the IPFS driver to the
\* distribution server and leaves defaultDriver unset (it is assigned only on
\* the error path and on the multi-driver path), so that ipfs.Get(), the
\* getDriver of the service, returns a nil driver.
ServiceDriverSingle == "nil"

InitSingle ==
    /\ mfs \in {EmptyStore, UploadedStore}
    /\ cache = EmptyStore
    /\ objects = InitObjects
    /\ dirSize \in {0, 1}
    /\ noClone \in BOOLEAN
    /\ primaryUp = TRUE
    /\ task = [p \in Procs |-> IdleTask]
    /\ faults = 0
    /\ purges = MaxPurges
    /\ served = 0
    /\ drv = IdleDrv
    /\ router = IdleRouter
    /\ fw = IdleWriter
    /\ nodes = IdleNodes

SingleRequests ==
    [method : {"PUT"}, path : {ManifestPath(MyRepo, tg) : tg \in {Latest, TagV1}},
     body : LocalImages]
    \cup [method : {"GET", "HEAD"},
          path : {ManifestPath(n, Latest) : n \in {MyRepo, CidV1(6)}}, body : {0}]

ReceiveSingle(p, r) ==
    /\ p = 1
    /\ Idle
    /\ served < MaxRequests
    /\ SetTask(p, [IdleTask EXCEPT !.pc = "pre", !.method = r.method,
                                   !.path = r.path, !.body = r.body,
                                   !.rcvMfs = mfs, !.rcvCache = cache])
    /\ UNCHANGED <<mfs, cache, objects, dirSize, noClone, primaryUp, faults, purges, served, drv, router, fw, nodes>>

\* the distribution server on the IPFS driver alone: a manifest PUT
ServeManifestPutSingle(p) ==
    LET t == task[p]
        m == ManifestBlob(t.body)
        refs == {makeBlobPath(HexDigest(b)) : b \in ReferredBlobs(t.body)}
    IN
    /\ t.pc = "serve"
    /\ IsManifestPut(t)
    /\ \E mode \in Modes :
        /\ Charge(mode)
        /\ IF mode = "fail"
           THEN /\ UNCHANGED mfs
                /\ SetTask(p, [t EXCEPT !.pc = "post", !.forwarded = TRUE, !.status = 500])
           ELSE IF \E q \in refs : ~HasPath(mfs, q)
           THEN /\ UNCHANGED mfs
                /\ SetTask(p, [t EXCEPT !.pc = "post", !.forwarded = TRUE, !.status = 400])
           ELSE /\ mfs' = [mfs EXCEPT
                            !.blobs = Put(@, HexDigest(m), m),
                            !.repos = Put(@, t.path[2], [RepoOf(mfs, t.path[2]) EXCEPT
                                                   !.tags = Put(@, t.path[4], Link(m))])]
                /\ SetTask(p, [t EXCEPT !.pc = "post", !.forwarded = TRUE, !.status = 201])
    /\ UNCHANGED <<cache, objects, dirSize, noClone, primaryUp, purges, served, drv, router, fw, nodes>>

\* the distribution server on the IPFS driver alone: a manifest GET or HEAD
ServeManifestGetSingle(p) ==
    LET t == task[p]
        lp == makeTagPathFor(t.path[2], t.path[4])
    IN
    /\ t.pc = "serve"
    /\ t.method \in {"GET", "HEAD"}
    /\ \E mode \in Modes :
        /\ Charge(mode)
        /\ SetTask(p, [t EXCEPT !.pc = "post", !.forwarded = TRUE,
                !.status = IF mode = "fail" THEN 500
                           ELSE IF /\ HasPath(mfs, lp)
                                   /\ HasPath(mfs, makeBlobPath(
                                        SubSeq(mfs.repos[lp.name].tags[lp.tag], 8, 8)))
                                THEN 200 ELSE 404])
    /\ UNCHANGED <<mfs, cache, objects, dirSize, noClone, primaryUp, purges, served, drv, router, fw, nodes>>

\* stat, err := driver.Stat(ctx, manifestDigestRepoPath) on the nil driver:
\* the goroutine panics, the deferred driver.Delete panics as well, and
\* MakeGlobalRepo never returns
MStatSingle(p) ==
    /\ task[p].pc = "m_stat"
    /\ ServiceDriverSingle = "nil"
    /\ SetTask(p, [task[p] EXCEPT !.pc = "done", !.ret = "panic"])
    /\ UNCHANGED <<mfs, cache, objects, dirSize, noClone, primaryUp, faults, purges, served, drv, router, fw, nodes>>

\* stat, err := driver.Stat(ctx, makeDiscoFilePath(repoName)) on the nil
\* driver: the goroutine panics before any response is written
CStatSingle(p) ==
    /\ task[p].pc = "c_stat"
    /\ ServiceDriverSingle = "nil"
    /\ SetTask(p, [task[p] EXCEPT !.pc = "done", !.ret = "panic"])
    /\ UNCHANGED <<mfs, cache, objects, dirSize, noClone, primaryUp, faults, purges, served, drv, router, fw, nodes>>

\* the deferred driver.Delete(ctx, uploadRepoPath) on the nil driver, after a
\* failed step #1: it panics
MDeferSingle(p) ==
    /\ task[p].pc = "m_defer"
    /\ ServiceDriverSingle = "nil"
    /\ SetTask(p, [task[p] EXCEPT !.pc = "done", !.ret = "panic"])
    /\ UNCHANGED <<mfs, cache, objects, dirSize, noClone, primaryUp, faults, purges, served, drv, router, fw, nodes>>

NextSingle ==
    \/ \E p \in Procs : \E r \in SingleRequests : ReceiveSingle(p, r)
    \/ \E p \in Procs : PreHandle(p)
    \/ \E p \in Procs : ServeManifestPutSingle(p)
    \/ \E p \in Procs : ServeManifestGetSingle(p)
    \/ \E p \in Procs : PostHandle(p)
    \/ \E p \in Procs : MLink(p)
    \/ \E p \in Procs : MStatSingle(p)
    \/ \E p \in Procs : MDeferSingle(p)
    \/ \E p \in Procs : CFilter(p)
    \/ \E p \in Procs : CStatSingle(p)
    \/ \E p \in Procs : Finish(p)

SpecSingle == InitSingle /\ [][NextSingle]_vars

\* ------------------------------------- repository names of several segments
\* A repository name may hold slashes: the clients push to org/app and to
\* org/other beside myrepo. No store is purged here.
InitNested ==
    /\ mfs = UploadedStore
    /\ cache = mfs
    /\ objects = InitObjects
    /\ dirSize \in {0, 1}
    /\ noClone = FALSE
    /\ primaryUp = TRUE
    /\ task = [p \in Procs |-> IdleTask]
    /\ faults = 0
    /\ purges = MaxPurges
    /\ served = 0
    /\ drv = IdleDrv
    /\ router = IdleRouter
    /\ fw = IdleWriter
    /\ nodes = IdleNodes

NestedRequests ==
    [method : {"PUT"},
     path : {<<V2, Org, App, ManifestsSeg, Latest>>,
             <<V2, Org, Other, ManifestsSeg, TagV1>>,
             ManifestPath(MyRepo, Latest)},
     body : LocalImages]

ReceiveNested(p, r) ==
    /\ p = 1
    /\ Idle
    /\ served < MaxRequests
    /\ SetTask(p, [IdleTask EXCEPT !.pc = "pre", !.method = r.method,
                                   !.path = r.path, !.body = r.body,
                                   !.rcvMfs = mfs, !.rcvCache = cache])
    /\ UNCHANGED <<mfs, cache, objects, dirSize, noClone, primaryUp, faults, purges, served, drv, router, fw, nodes>>

NextNested ==
    \/ \E p \in Procs : \E r \in NestedRequests : ReceiveNested(p, r)
    \/ \E p \in Procs : PreHandle(p)
    \/ \E p \in Procs : ServeManifestPut(p)
    \/ \E p \in Procs : PostHandle(p)
    \/ \E p \in Procs : MakeGlobalRepo(p)
    \/ \E p \in Procs : Finish(p)

SpecNested == InitNested /\ [][NextNested]_vars

\* ------------------------------------------------ the composed driver alone
\* The multi-driver as a storage driver of its own: its callers issue one call
\* after another, each backend call of a composed call is written to drv.log,
\* and each backend call can fail. The two stores start in any combination of
\* an empty store, a complete repository, a repository whose copy stopped
\* before disco.json, and a repository directory without any regular file.
NoPath == makeRepoPath(<<>>)
NoData == <<>>

Call(side, method, p, dst, data) ==
    [side |-> side, method |-> method, path |-> p, dst |-> dst, data |-> data]

FullRepo == [tags |-> Put(EmptyFn, Latest, Link(1)), disco |-> EncodeDiscoFile(DiscoFileOf(1))]
PartialRepo == [tags |-> Put(EmptyFn, Latest, Link(1)), disco |-> <<>>]

DriverStores ==
    {EmptyStore,
     [repos |-> Put(EmptyFn, MyRepo, FullRepo), blobs |-> Put(EmptyFn, HexDigest(1), 1)],
     [repos |-> Put(EmptyFn, MyRepo, PartialRepo), blobs |-> EmptyFn],
     [repos |-> Put(EmptyFn, MyRepo, EmptyRepo), blobs |-> EmptyFn]}

DriverPaths ==
    {makeRepoPath(MyRepo), makeTagPathFor(MyRepo, Latest),
     makeDiscoFilePath(MyRepo), makeBlobPath(HexDigest(1))}

InitDriver ==
    /\ mfs \in DriverStores
    /\ cache \in DriverStores
    /\ objects = InitObjects
    /\ dirSize = 1
    /\ noClone = FALSE
    /\ primaryUp = TRUE
    /\ task = [p \in Procs |-> IdleTask]
    /\ faults = 0
    /\ purges = 0
    /\ served = 0
    /\ drv = IdleDrv
    /\ router = IdleRouter
    /\ fw = IdleWriter
    /\ nodes = IdleNodes

\* the regular files under path p of store s, in the order Walk visits them
RECURSIVE TagFiles(_, _)
TagFiles(n, ts) ==
    IF ts = {} THEN <<>>
    ELSE LET t == CHOOSE x \in ts : TRUE
         IN <<makeTagPathFor(n, t)>> \o TagFiles(n, ts \ {t})

FilesUnder(s, p) ==
    IF ~HasPath(s, p) THEN <<>>
    ELSE IF p.kind = "repo"
         THEN TagFiles(p.name, DOMAIN s.repos[p.name].tags)
                \o (IF s.repos[p.name].disco # <<>>
                    THEN <<makeDiscoFilePath(p.name)>> ELSE <<>>)
    ELSE <<p>>

\* syncD1ToD2 for each file of fs: a Reader of d1, then a Writer of d2
RECURSIVE SyncLog(_, _, _)
SyncLog(fs, s1, s2) ==
    IF fs = <<>> THEN <<>>
    ELSE <<Call(s1, "Reader", Head(fs), NoPath, NoData),
           Call(s2, "Writer", Head(fs), NoPath, NoData)>> \o SyncLog(Tail(fs), s1, s2)

\* the failure points of one replication: the Stat of the destination, the
\* Stat of the source, the copy
DrvReplicateModes(d1, d2, p) ==
    {"ok", "failDst"}
        \cup (IF ~HasPath(d2, p) THEN {"failSrc"} ELSE {})
        \cup (IF /\ ~HasPath(d2, p)
                 /\ HasPath(d1, p)
                 /\ (p.kind = "repo" => d1.repos[p.name].disco # <<>>)
              THEN {"partial"} ELSE {})

ModeOf(m) == IF m \in {"failDst", "failSrc"} THEN "fail" ELSE m

\* the backend calls of Replicate(ctx, d1, d2, p, p, false); s1 and s2 name
\* the sides d1 and d2 stand for
ReplicateLog(d1, d2, p, m, s1, s2) ==
    <<Call(s2, "Stat", p, NoPath, NoData)>> \o
    (IF m = "failDst" \/ HasPath(d2, p) THEN <<>>
     ELSE <<Call(s1, "Stat", p, NoPath, NoData)>> \o
          (IF m = "failSrc" \/ ~HasPath(d1, p) THEN <<>>
           ELSE (IF IsDirPath(p) THEN <<Call(s1, "Walk", p, NoPath, NoData)>> ELSE <<>>)
                \o (IF m = "partial"
                    THEN SyncLog(SubSeq(FilesUnder(d1, p), 1, Len(FilesUnder(d1, p)) - 1), s1, s2)
                         \o <<Call(s1, "Reader", FilesUnder(d1, p)[Len(FilesUnder(d1, p))],
                                   NoPath, NoData)>>
                    ELSE SyncLog(FilesUnder(d1, p), s1, s2))))

\* ReplicateIn...: Replicate, then the Stat of the destination when Replicate
\* returned no error
ReplicateInLog(d1, d2, p, m, s1, s2) ==
    ReplicateLog(d1, d2, p, m, s1, s2) \o
    (IF Replicate(d1, d2, p, ModeOf(m)).err = "nil"
     THEN <<Call(s2, "Stat", p, NoPath, NoData)>> ELSE <<>>)

\* a composed call begins: what the stores held is remembered
Begin(op, p, m) ==
    [drv EXCEPT !.op = op, !.path = p, !.dst = NoPath, !.mode = m, !.err = "none",
                !.log = <<>>, !.preMfs = mfs, !.preCache = cache, !.n = @ + 1]

DrvReplicateInSecondary(p, m) ==
    /\ drv.n < MaxCalls
    /\ ~drv.open
    /\ m \in DrvReplicateModes(mfs, cache, p)
    /\ LET r == ReplicateInSecondary(p, ModeOf(m))
       IN /\ cache' = r.d2
          /\ drv' = [Begin("ReplicateInSecondary", p, m) EXCEPT
                        !.err = r.err,
                        !.log = ReplicateInLog(mfs, cache, p, m, "primary", "secondary")]
    /\ UNCHANGED <<mfs, objects, dirSize, noClone, primaryUp, task, faults, purges, served, router, fw, nodes>>

DrvReplicateInPrimary(p, m) ==
    /\ drv.n < MaxCalls
    /\ ~drv.open
    /\ m \in DrvReplicateModes(cache, mfs, p)
    /\ LET r == ReplicateInPrimary(p, ModeOf(m))
       IN /\ mfs' = r.d2
          /\ drv' = [Begin("ReplicateInPrimary", p, m) EXCEPT
                        !.err = r.err,
                        !.log = ReplicateInLog(cache, mfs, p, m, "secondary", "primary")]
    /\ UNCHANGED <<cache, objects, dirSize, noClone, primaryUp, task, faults, purges, served, router, fw, nodes>>

\* the ways a call that goes to the primary and then to the secondary can end
FanOutModes == {"ok", "failPrimary", "failSecondary"}

ErrOf(m) == CASE m = "ok" -> "nil" [] m = "failPrimary" -> "primary" [] OTHER -> "secondary"

\* the backend calls of a fan-out: the secondary is called after the primary
\* returned no error
FanOutLog(method, p, dst, data, m) ==
    <<Call("primary", method, p, dst, data)>> \o
    (IF m = "failPrimary" THEN <<>> ELSE <<Call("secondary", method, p, dst, data)>>)

\* PutContent of one backend: the link file of a tag
PutPath(s, p, content) ==
    [s EXCEPT !.repos = Put(@, p.name,
        [RepoOf(s, p.name) EXCEPT !.tags = Put(@, p.tag, content)])]

\* a PutContent that writes the secondary although the primary write failed
DriverPutContentBoth(p, content, m) ==
    [mfs |-> IF m = "failPrimary" THEN mfs ELSE PutPath(mfs, p, content),
     cache |-> IF m = "failSecondary" THEN cache ELSE PutPath(cache, p, content),
     err |-> ErrOf(m),
     log |-> <<Call("primary", "PutContent", p, NoPath, content),
               Call("secondary", "PutContent", p, NoPath, content)>>]

\* driver.PutContent of the multi-driver
DriverPutContent(p, content, m) ==
    [mfs |-> IF m = "failPrimary" THEN mfs ELSE PutPath(mfs, p, content),
     cache |-> IF m = "ok" THEN PutPath(cache, p, content) ELSE cache,
     err |-> ErrOf(m),
     log |-> FanOutLog("PutContent", p, NoPath, content, m)]

DrvPutContent(p, content, m) ==
    /\ drv.n < MaxCalls
    /\ ~drv.open
    /\ LET r == DriverPutContent(p, content, m)
       IN /\ mfs' = r.mfs
          /\ cache' = r.cache
          /\ drv' = [Begin("PutContent", p, m) EXCEPT !.err = r.err, !.log = r.log]
    /\ UNCHANGED <<objects, dirSize, noClone, primaryUp, task, faults, purges, served, router, fw, nodes>>

\* Move of one backend: the object at src is at dst afterwards
MovePath(s, src, dst) ==
    IF src.kind = "repo"
    THEN [s EXCEPT !.repos = Put(Drop(@, src.name), dst.name, s.repos[src.name])]
    ELSE [s EXCEPT !.blobs = Put(Drop(@, src.name), dst.name, s.blobs[src.name])]

\* the Move of a backend fails when the source is not there, or by a fault
MoveEnd(src, m) ==
    IF m = "failPrimary" \/ ~HasPath(mfs, src) THEN "failPrimary"
    ELSE IF m = "failSecondary" \/ ~HasPath(cache, src) THEN "failSecondary"
    ELSE "ok"

\* a Move that replicates the source into the secondary before it acts
DriverMoveReplicating(src, dst, m) ==
    LET r == ReplicateInSecondary(src, "ok")
        e == IF m = "failPrimary" \/ ~HasPath(mfs, src) THEN "failPrimary"
             ELSE IF m = "failSecondary" \/ ~HasPath(r.d2, src) THEN "failSecondary"
             ELSE "ok"
    IN [mfs |-> IF e = "failPrimary" THEN mfs ELSE MovePath(mfs, src, dst),
        cache |-> IF e = "ok" THEN MovePath(r.d2, src, dst) ELSE r.d2,
        err |-> ErrOf(e),
        log |-> ReplicateInLog(mfs, cache, src, "ok", "primary", "secondary")
                    \o FanOutLog("Move", src, dst, NoData, e)]

\* driver.Move of the multi-driver
DriverMove(src, dst, m) ==
    LET e == MoveEnd(src, m)
    IN [mfs |-> IF e = "failPrimary" THEN mfs ELSE MovePath(mfs, src, dst),
        cache |-> IF e = "ok" THEN MovePath(cache, src, dst) ELSE cache,
        err |-> ErrOf(e),
        log |-> FanOutLog("Move", src, dst, NoData, e)]

DrvMove(src, dst, m) ==
    /\ drv.n < MaxCalls
    /\ ~drv.open
    /\ LET r == DriverMove(src, dst, m)
       IN /\ mfs' = r.mfs
          /\ cache' = r.cache
          /\ drv' = [Begin("Move", src, m) EXCEPT !.dst = dst, !.err = r.err, !.log = r.log]
    /\ UNCHANGED <<objects, dirSize, noClone, primaryUp, task, faults, purges, served, router, fw, nodes>>

DrvDelete(p, m) ==
    /\ drv.n < MaxCalls
    /\ ~drv.open
    /\ LET r == DriverDelete(p, m)
       IN /\ mfs' = r.mfs
          /\ cache' = r.cache
          /\ drv' = [Begin("Delete", p, m) EXCEPT
                        !.err = ErrOf(m),
                        !.log = FanOutLog("Delete", p, NoPath, NoData, m)]
    /\ UNCHANGED <<objects, dirSize, noClone, primaryUp, task, faults, purges, served, router, fw, nodes>>

\* ------------------------------------------------------ the fan-out writer
MaxChunks == 2          \* Write calls on one fan-out writer
Chunks == {<<7>>, <<8, 9>>}

RECURSIVE Flatten(_)
Flatten(cs) == IF cs = <<>> THEN <<>> ELSE Head(cs) \o Flatten(Tail(cs))

\* one backend FileWriter after the method has been applied to it
FwApply(w, method, c) ==
    CASE method = "Write" -> [w EXCEPT !.chunks = Append(@, c), !.size = @ + Len(c)]
      [] method = "Close" -> [w EXCEPT !.closed = TRUE]
      [] method = "Cancel" -> [w EXCEPT !.cancelled = TRUE]
      [] OTHER -> [w EXCEPT !.committed = TRUE]

\* a fan-out that goes on to the secondary writer after the primary one failed
FileWriterDoBoth(pri, sec, method, c, m) ==
    [pri |-> IF m = "failPrimary" THEN pri ELSE FwApply(pri, method, c),
     sec |-> IF m = "failSecondary" THEN sec ELSE FwApply(sec, method, c),
     err |-> ErrOf(m),
     log |-> <<Call("primary", method, drv.wpath, NoPath, c),
               Call("secondary", method, drv.wpath, NoPath, c)>>]

\* fileWriter.Write / Close / Cancel / Commit: the primary writer, then the
\* secondary writer unless the primary one returned an error
FileWriterDo(pri, sec, method, c, m) ==
    [pri |-> IF m = "failPrimary" THEN pri ELSE FwApply(pri, method, c),
     sec |-> IF m = "ok" THEN FwApply(sec, method, c) ELSE sec,
     err |-> ErrOf(m),
     log |-> FanOutLog(method, drv.wpath, NoPath, c, m)]

\* fileWriter.Size
FileWriterSize(pri, sec) == pri.size

\* driver.Writer of the multi-driver: both backend writers, the primary first
DrvWriter(p, m) ==
    /\ drv.n < MaxCalls
    /\ ~drv.open
    /\ drv' = [Begin("Writer", p, m) EXCEPT
                    !.err = ErrOf(m),
                    !.log = FanOutLog("Writer", p, NoPath, NoData, m),
                    !.open = (m = "ok"), !.wpath = p,
                    !.pri = NewWriter, !.sec = NewWriter, !.writesOk = TRUE]
    /\ UNCHANGED <<mfs, cache, objects, dirSize, noClone, primaryUp, task, faults,
                   purges, served, router, fw, nodes>>

FwStep(method, c, m) ==
    LET r == FileWriterDo(drv.pri, drv.sec, method, c, m)
    IN drv' = [drv EXCEPT !.op = method, !.mode = m, !.err = r.err, !.log = r.log,
                          !.pri = r.pri, !.sec = r.sec,
                          !.writesOk = @ /\ (method = "Write" => m = "ok")]

\* the callers of a FileWriter write, then commit or cancel, then close
Writable(w) == ~w.closed /\ ~w.cancelled /\ ~w.committed

FwWrite(c, m) ==
    /\ drv.open
    /\ Writable(drv.pri)
    /\ Len(drv.pri.chunks) < MaxChunks
    /\ FwStep("Write", c, m)
    /\ UNCHANGED <<mfs, cache, objects, dirSize, noClone, primaryUp, task, faults,
                   purges, served, router, fw, nodes>>

FwSize ==
    /\ drv.open
    /\ drv' = [drv EXCEPT !.op = "Size", !.mode = "ok", !.err = "nil",
                          !.log = <<Call("primary", "Size", drv.wpath, NoPath, NoData)>>,
                          !.size = FileWriterSize(drv.pri, drv.sec)]
    /\ UNCHANGED <<mfs, cache, objects, dirSize, noClone, primaryUp, task, faults,
                   purges, served, router, fw, nodes>>

FwClose(m) ==
    /\ drv.open
    /\ ~drv.pri.closed
    /\ FwStep("Close", NoData, m)
    /\ UNCHANGED <<mfs, cache, objects, dirSize, noClone, primaryUp, task, faults,
                   purges, served, router, fw, nodes>>

FwCancel(m) ==
    /\ drv.open
    /\ Writable(drv.pri)
    /\ FwStep("Cancel", NoData, m)
    /\ UNCHANGED <<mfs, cache, objects, dirSize, noClone, primaryUp, task, faults,
                   purges, served, router, fw, nodes>>

\* Commit makes the content a backend writer received the content of the path
FwCommit(m) ==
    /\ drv.open
    /\ Writable(drv.pri)
    /\ FwStep("Commit", NoData, m)
    /\ mfs' = IF drv'.pri.committed
              THEN PutPath(mfs, drv.wpath, Flatten(drv.pri.chunks)) ELSE mfs
    /\ cache' = IF drv'.sec.committed
                THEN PutPath(cache, drv.wpath, Flatten(drv.sec.chunks)) ELSE cache
    /\ UNCHANGED <<objects, dirSize, noClone, primaryUp, task, faults, purges, served, router, fw, nodes>>

NextDriver ==
    \/ \E p \in DriverPaths, m \in {"ok", "failDst", "failSrc", "partial"} :
            DrvReplicateInSecondary(p, m)
    \/ \E p \in DriverPaths, m \in {"ok", "failDst", "failSrc", "partial"} :
            DrvReplicateInPrimary(p, m)
    \/ \E c \in {Link(1), Link(4)}, m \in FanOutModes :
            DrvPutContent(makeTagPathFor(MyRepo, Latest), c, m)
    \/ \E m \in FanOutModes :
            \/ DrvMove(makeRepoPath(MyRepo), makeRepoPath(OtherRepo), m)
            \/ DrvMove(makeBlobPath(HexDigest(1)), makeBlobPath(HexDigest(2)), m)
    \/ \E p \in {makeRepoPath(MyRepo), makeBlobPath(HexDigest(1))}, m \in FanOutModes :
            DrvDelete(p, m)
    \/ \E m \in FanOutModes : DrvWriter(makeTagPathFor(MyRepo, TagV1), m)
    \/ \E c \in Chunks, m \in FanOutModes : FwWrite(c, m)
    \/ FwSize
    \/ \E m \in FanOutModes : FwClose(m)
    \/ \E m \in FanOutModes : FwCancel(m)
    \/ \E m \in FanOutModes : FwCommit(m)

SpecDriver == InitDriver /\ [][NextDriver]_vars

\* ------------------------------------------------------- the content router
\* Strings are sequences of byte values here, and MD5 is computed as RFC 1321
\* computes it. A 32-bit word is the pair <<high half, low half>> of 16-bit
\* numbers, so that no intermediate result leaves the 32-bit integers.
MaxNodes == 3           \* IPFS nodes behind the router
MaxRoutes == 2          \* RouteContent calls in one behaviour

W16 == 65536

RECURSIVE BitOp16(_, _, _, _)
BitOp16(op, a, b, n) ==
    IF n = 0 THEN 0
    ELSE LET x == a % 2
             y == b % 2
             r == CASE op = "and" -> x * y
                    [] op = "or" -> x + y - x * y
                    [] OTHER -> (x + y) % 2
         IN r + 2 * BitOp16(op, a \div 2, b \div 2, n - 1)

And32(u, v) == <<BitOp16("and", u[1], v[1], 16), BitOp16("and", u[2], v[2], 16)>>
Or32(u, v) == <<BitOp16("or", u[1], v[1], 16), BitOp16("or", u[2], v[2], 16)>>
Xor32(u, v) == <<BitOp16("xor", u[1], v[1], 16), BitOp16("xor", u[2], v[2], 16)>>
Not32(u) == <<W16 - 1 - u[1], W16 - 1 - u[2]>>

\* addition modulo 2^32
Add32(u, v) ==
    LET lo == u[2] + v[2]
        hi == u[1] + v[1] + lo \div W16
    IN <<hi % W16, lo % W16>>

\* rotation to the left by s bits, 0 < s < 32
RotL32(u, s) ==
    LET w == IF s >= 16 THEN <<u[2], u[1]>> ELSE u
        k == s % 16
        p == 2 ^ k
        q == 2 ^ (16 - k)
    IN <<((w[1] * p) % W16) + (w[2] \div q), ((w[2] * p) % W16) + (w[1] \div q)>>

\* floor(2^32 * abs(sin(i))) for i = 1..64
Md5K ==
    <<
      <<55146, 42104>>, <<59591, 46934>>, <<9248, 28891>>, <<49597, 52974>>,
      <<62844, 4015>>, <<18311, 50730>>, <<43056, 17939>>, <<64838, 38145>>,
      <<27008, 39128>>, <<35652, 63407>>, <<65535, 23473>>, <<35164, 55230>>,
      <<27536, 4386>>, <<64920, 29075>>, <<42617, 17294>>, <<18868, 2081>>,
      <<63006, 9570>>, <<49216, 45888>>, <<9822, 23121>>, <<59830, 51114>>,
      <<54831, 4189>>, <<580, 5203>>, <<55457, 59009>>, <<59347, 64456>>,
      <<8673, 52710>>, <<49975, 2006>>, <<62677, 3463>>, <<17754, 5357>>,
      <<43491, 59653>>, <<64751, 41976>>, <<26479, 729>>, <<36138, 19594>>,
      <<65530, 14658>>, <<34673, 63105>>, <<28061, 24866>>, <<64997, 14348>>,
      <<42174, 59972>>, <<19422, 53161>>, <<63163, 19296>>, <<48831, 48240>>,
      <<10395, 32454>>, <<60065, 10234>>, <<54511, 12421>>, <<1160, 7429>>,
      <<55764, 53305>>, <<59099, 39397>>, <<8098, 31992>>, <<50348, 22117>>,
      <<62505, 8772>>, <<17194, 65431>>, <<43924, 9127>>, <<64659, 41017>>,
      <<25947, 22979>>, <<36620, 52370>>, <<65519, 62589>>, <<34180, 24017>>,
      <<28584, 32335>>, <<65068, 59104>>, <<41729, 17172>>, <<19976, 4513>>,
      <<63315, 32386>>, <<48442, 62005>>, <<10967, 53947>>, <<60294, 54161>>
    >>

\* the shift of each round
Md5S ==
    <<
      7, 12, 17, 22, 7, 12, 17, 22, 7, 12, 17, 22, 7, 12, 17, 22,
      5, 9, 14, 20, 5, 9, 14, 20, 5, 9, 14, 20, 5, 9, 14, 20,
      4, 11, 16, 23, 4, 11, 16, 23, 4, 11, 16, 23, 4, 11, 16, 23,
      6, 10, 15, 21, 6, 10, 15, 21, 6, 10, 15, 21, 6, 10, 15, 21
    >>

Md5Init == <<<<26437, 8961>>, <<61389, 43913>>, <<39098, 56574>>, <<4146, 21622>>>>

\* the one block of a message shorter than 56 bytes: the message, 0x80, zeros
\* up to byte 56, the length in bits as 64 little-endian bits
Md5Block(msg) ==
    [i \in 1..64 |->
        IF i <= Len(msg) THEN msg[i]
        ELSE IF i = Len(msg) + 1 THEN 128
        ELSE IF i = 57 THEN (8 * Len(msg)) % 256
        ELSE IF i = 58 THEN (8 * Len(msg)) \div 256
        ELSE 0]

\* word g (0..15) of the block, little-endian
Md5Word(blk, g) ==
    <<blk[4 * g + 3] + 256 * blk[4 * g + 4], blk[4 * g + 1] + 256 * blk[4 * g + 2]>>

\* round i applied to the state <<A, B, C, D>>
Md5Round(i, st, blk) ==
    LET A == st[1]
        B == st[2]
        C == st[3]
        D == st[4]
        F == CASE i < 16 -> Or32(And32(B, C), And32(Not32(B), D))
               [] i >= 16 /\ i < 32 -> Or32(And32(D, B), And32(Not32(D), C))
               [] i >= 32 /\ i < 48 -> Xor32(B, Xor32(C, D))
               [] OTHER -> Xor32(C, Or32(B, Not32(D)))
        g == CASE i < 16 -> i
               [] i >= 16 /\ i < 32 -> (5 * i + 1) % 16
               [] i >= 32 /\ i < 48 -> (3 * i + 5) % 16
               [] OTHER -> (7 * i) % 16
        sum == Add32(Add32(F, A), Add32(Md5K[i + 1], Md5Word(blk, g)))
    IN <<D, Add32(B, RotL32(sum, Md5S[i + 1])), B, C>>

\* rounds i..last-1; the state of a round is bound as a value before the next
\* round reads it
RECURSIVE Md5Rounds(_, _, _, _)
Md5Rounds(i, last, st, blk) ==
    IF i = last THEN st
    ELSE CHOOSE r \in {Md5Rounds(j, last, next, b) :
                         j \in {i + 1}, next \in {Md5Round(i, st, blk)}, b \in {blk}} : TRUE

\* eight rounds from round i on each state of S
Md5Eight(i, S, blk) == {Md5Rounds(i, i + 8, st, blk) : st \in S}

\* the 64 rounds over one block, eight at a time
Md5Compress(blk) ==
    CHOOSE r \in
        UNION {Md5Eight(56, Md5Eight(48, Md5Eight(40, Md5Eight(32,
                 Md5Eight(24, Md5Eight(16, Md5Eight(8, Md5Eight(0, {Md5Init}, b),
                 b), b), b), b), b), b), b) : b \in {blk}} : TRUE

\* the bytes of a word, least significant first
WordBytes(u) == <<u[2] % 256, u[2] \div 256, u[1] % 256, u[1] \div 256>>

\* md5.Sum: the 16 bytes of the digest
Md5Sum(msg) ==
    CHOOSE sum \in
        {WordBytes(Add32(Md5Init[1], st[1])) \o WordBytes(Add32(Md5Init[2], st[2]))
            \o WordBytes(Add32(Md5Init[3], st[3])) \o WordBytes(Add32(Md5Init[4], st[4])) :
         st \in {Md5Compress(Md5Block(msg))}} : TRUE

\* new(big.Int).SetBytes(bytes) mod n: the bytes read as a big-endian number
RECURSIVE BigMod(_, _, _)
BigMod(bytes, n, acc) ==
    IF bytes = <<>> THEN acc
    ELSE BigMod(Tail(bytes), n, (acc * 256 + Head(bytes)) % n)

\* the strings of the storage paths, byte by byte
LetterX == 120
StrDocker == <<100, 111, 99, 107, 101, 114>>
StrRegistry == <<114, 101, 103, 105, 115, 116, 114, 121>>
StrV2 == <<118, 50>>
StrV1 == <<118, 49>>
StrRepositories == <<114, 101, 112, 111, 115, 105, 116, 111, 114, 105, 101, 115>>
StrUploads == <<117, 112, 108, 111, 97, 100, 115>>
StrBlobs == <<98, 108, 111, 98, 115>>
StrManifests == <<109, 97, 110, 105, 102, 101, 115, 116, 115>>
StrSha256 == <<115, 104, 97, 50, 53, 54>>
StrAa == <<97, 97>>
StrAc == <<97, 99>>

\* md5.Sum of the ids the router meets, computed once
KnownIds == {StrAa, StrAc, StrSha256, <<>>}
Md5Memo == {<<id, Md5Sum(id)>> : id \in KnownIds}
Md5Of(id) ==
    IF \E pr \in Md5Memo : pr[1] = id
    THEN (CHOOSE pr \in Md5Memo : pr[1] = id)[2]
    ELSE Md5Sum(id)

RECURSIVE Reverse(_)
Reverse(s) == IF s = <<>> THEN <<>> ELSE Append(Reverse(Tail(s)), Head(s))

\* the digest read with its last byte as the most significant one
BigIntModLittleEndian(bytes, n) == BigMod(Reverse(bytes), n, 0)

\* new(big.Int).Mod(new(big.Int).SetBytes(hash[:]), nodeCount)
BigIntMod(bytes, n) == BigMod(bytes, n, 0)

\* strings.Split(s, "/")
RECURSIVE SplitAcc(_, _, _)
SplitAcc(s, cur, out) ==
    IF s = <<>> THEN Append(out, cur)
    ELSE IF Head(s) = Slash THEN SplitAcc(Tail(s), <<>>, Append(out, cur))
    ELSE SplitAcc(Tail(s), Append(cur, Head(s)), out)

Split(s) == SplitAcc(s, <<>>, <<>>)

\* Router.RouteContent: the id, the node index and the error; "panic" is a
\* run-time panic of the Go code (a slice or an index out of range)
RouteContent(path, nodeCount) ==
    IF Len(path) < 1 THEN [id |-> <<>>, index |-> 0, err |-> "panic"]
    ELSE LET segments == Split(Tail(path))
         IN IF Len(segments) < 5 THEN [id |-> <<>>, index |-> 0, err |-> "error"]
            ELSE IF segments[1] # StrDocker \/ segments[2] # StrRegistry
                        \/ segments[3] # StrV2
                 THEN [id |-> <<>>, index |-> 0, err |-> "error"]
            ELSE LET rest == SubSeq(segments, 4, Len(segments))
                 IN IF rest[1] \in {StrRepositories, StrUploads}
                    THEN [id |-> rest[2],
                          index |-> BigIntMod(Md5Of(rest[2]), nodeCount),
                          err |-> "nil"]
                    ELSE IF rest[1] = StrBlobs
                    THEN IF Len(rest) < 4
                         THEN [id |-> <<>>, index |-> 0, err |-> "panic"]
                         ELSE [id |-> rest[4],
                               index |-> BigIntMod(Md5Of(rest[4]), nodeCount),
                               err |-> "nil"]
                    ELSE [id |-> <<>>, index |-> 0, err |-> "error"]

\* the paths handed to the router: with and without the leading slash, with a
\* right and a wrong prefix, of every content kind and of one that is none,
\* with ids, with the bucket directories of a blob, cut short, and empty
RouteTails ==
    {<<>>, <<StrAa>>, <<StrAc>>, <<StrSha256, StrAa, StrAa>>,
     <<StrSha256, StrAc, StrAc>>, <<<<>>>>}

RouteKinds == {StrRepositories, StrUploads, StrBlobs, StrManifests}

RoutePaths ==
    {<<>>, <<Slash>>}
    \cup {<<Slash>> \o Join(pre \o <<kind>> \o tail) :
            pre \in {<<StrDocker, StrRegistry, StrV2>>, <<StrDocker, StrRegistry, StrV1>>},
            kind \in RouteKinds, tail \in RouteTails}
    \cup {<<LetterX>> \o Join(<<StrDocker, StrRegistry, StrV2, kind>> \o tail) :
            kind \in RouteKinds, tail \in {<<StrAa>>, <<StrSha256, StrAa, StrAa>>}}

InitRouter ==
    /\ mfs = EmptyStore
    /\ cache = EmptyStore
    /\ objects = InitObjects
    /\ dirSize = 1
    /\ noClone = FALSE
    /\ primaryUp = TRUE
    /\ task = [p \in Procs |-> IdleTask]
    /\ faults = 0
    /\ purges = 0
    /\ served = 0
    /\ drv = IdleDrv
    /\ router \in [nodeCount : 1..MaxNodes, calls : {<<>>}]
    /\ fw = IdleWriter
    /\ nodes = IdleNodes

\* one call of RouteContent; a panic ends the program
CallRouteContent(path) ==
    /\ Len(router.calls) < MaxRoutes
    /\ \A k \in 1..Len(router.calls) : router.calls[k].err # "panic"
    /\ LET r == RouteContent(path, router.nodeCount)
       IN router' = [router EXCEPT !.calls =
                        Append(@, [path |-> path, id |-> r.id, index |-> r.index,
                                   err |-> r.err])]
    /\ UNCHANGED <<mfs, cache, objects, dirSize, noClone, primaryUp, task, faults,
                   purges, served, drv, fw, nodes>>

NextRouter == \E path \in RoutePaths : CallRouteContent(path)

SpecRouter == InitRouter /\ [][NextRouter]_vars

\* ================================================================ properties
\* MakeGlobalRepo has returned to its caller, its deferred Delete included
MakeReturned(p) == task[p].pc = "done" /\ task[p].hook = "make"

\* repository n of store fs holds the image of manifest digest d under latest
HoldsImage(fs, n, d) ==
    /\ n \in DOMAIN fs.repos
    /\ Latest \in DOMAIN fs.repos[n].tags
    /\ digestFromLink(fs.repos[n].tags[Latest]) = d

CidReposOf(fs, d) == {n \in DOMAIN fs.repos : IsCIDv1(n) /\ HoldsImage(fs, n, d)}
DigestReposOf(fs, d) == {n \in DOMAIN fs.repos : IsDigestHex(n) /\ HoldsImage(fs, n, d)}

\* ------------------------------------------------------------------- C1
\* C1: when MakeGlobalRepo returns success for an arbitrary name P whose
\* latest link holds digest D (and its Delete of P went through), the primary
\* holds a repository named D and a CID-v1-named repository of the image, and
\* P is in neither store.
C1_Original ==
    \A p \in Procs :
        LET t == task[p] IN
        (/\ MakeReturned(p)
         /\ t.ret = "ok"
         /\ t.del = "ok"
         /\ ~IsOnlyPullable(t.repoName)
         /\ t.manifestDigest # <<>>)
        => /\ HasPath(mfs, makeRepoPath(t.manifestDigest))
           /\ CidReposOf(mfs, t.manifestDigest) # {}
           /\ ~HasPath(mfs, makeRepoPath(t.repoName))
           /\ ~HasPath(cache, makeRepoPath(t.repoName))

C3_Original ==
    \A p \in Procs :
        LET t == task[p] IN
        MakeReturned(p) =>
            /\ t.failed => t.ret = "err"
            /\ t.ret = "ok" => \/ t.shortcut
                               \/ ~t.failed /\ t.repoCidV1 # <<>>

\* ------------------------------------------------------------------- C4
\* C4: after completed pushes of one image (no fault, no purge), the primary
\* holds exactly one digest-named and exactly one CID-named repository of it.
C4_Original ==
    \A p \in Procs :
        LET t == task[p] IN
        (/\ MakeReturned(p)
         /\ t.ret = "ok"
         /\ t.status = 201
         /\ faults = 0
         /\ purges = 0
         /\ t.manifestDigest # <<>>)
        => /\ Cardinality(DigestReposOf(mfs, t.manifestDigest)) = 1
           /\ Cardinality(CidReposOf(mfs, t.manifestDigest)) = 1

\* ------------------------------------------------------------------- C5
\* C5: after a successful MakeGlobalRepo the digest-named repository of the
\* primary has exactly two tags, latest and one CID v1, with the same link.
C5_Original ==
    \A p \in Procs :
        LET t == task[p]
            d == t.manifestDigest
        IN
        (MakeReturned(p) /\ t.ret = "ok" /\ d # <<>>)
        => /\ HasPath(mfs, makeRepoPath(d))
           /\ \E c \in DOMAIN mfs.repos[d].tags :
                /\ IsCIDv1(c)
                /\ DOMAIN mfs.repos[d].tags = {Latest, c}
                /\ mfs.repos[d].tags[c] = mfs.repos[d].tags[Latest]

\* ------------------------------------------------------------------- C6
\* C6 as stated: when the step-3 check finds the digest-named repository (it
\* is in the primary and its size is nonzero), MakeGlobalRepo returns success
\* without writing disco.json and without mkdir, rm or cp, and the removal of
\* the arbitrary-name repository is its only change to the repositories.
C6_Original ==
    \A p \in Procs :
        LET t == task[p]
            P == makeRepoPath(t.repoName)
        IN
        (MakeReturned(p) /\ t.shortcut /\ t.priHad)
        => /\ t.ret = "ok"
           /\ t.calls \cap {"write", "mkdir", "rm", "cp"} = {}
           /\ mfs \in {t.preMfs, DeletePath(t.preMfs, P)}
           /\ cache \in {t.preCache, DeletePath(t.preCache, P)}

\* C6, amended: in that case MakeGlobalRepo returns success without writing
\* disco.json and without mkdir, rm or cp; its only changes to the
\* repositories are the deferred removal of the arbitrary-name repository
\* and, when the secondary lacked the digest-named repository, the copy of
\* that repository from the primary that the Stat of the check makes.
C6_Amended ==
    \A p \in Procs :
        LET t == task[p]
            P == makeRepoPath(t.repoName)
            d == t.manifestDigest
            others == (DOMAIN t.preCache.repos) \ {t.repoName, d}
        IN
        (MakeReturned(p) /\ t.shortcut /\ t.priHad)
        => /\ t.ret = "ok"
           /\ t.calls \cap {"write", "mkdir", "rm", "cp"} = {}
           /\ mfs \in {t.preMfs, DeletePath(t.preMfs, P)}
           /\ cache.blobs = t.preCache.blobs
           /\ (DOMAIN cache.repos) \ {t.repoName, d} = others
           /\ \A n \in others : cache.repos[n] = t.preCache.repos[n]
           /\ t.repoName \in DOMAIN cache.repos
                    => /\ t.repoName \in DOMAIN t.preCache.repos
                       /\ cache.repos[t.repoName] = t.preCache.repos[t.repoName]
           /\ d \in DOMAIN cache.repos
           /\ cache.repos[d] = IF d \in DOMAIN t.preCache.repos
                               THEN t.preCache.repos[d]
                               ELSE t.preMfs.repos[d]

\* a short-circuited call whose Stat copied the digest-named repository, with
\* its disco.json, into a secondary that lacked it
C6_Witness ==
    \E p \in Procs :
        LET t == task[p] IN
        /\ MakeReturned(p)
        /\ t.shortcut
        /\ t.priHad
        /\ ~HasPath(t.preCache, makeRepoPath(t.manifestDigest))
        /\ HasPath(cache, makeDiscoFilePath(t.manifestDigest))

\* ------------------------------------------------------------------- C7
\* C7: a PUT whose path contains /manifests/latest and whose repository name
\* (the path segment after /v2/, as preHandle reads it) is a CID v1 or a
\* digest hex is answered 401 by the proxy: it is not forwarded,
\* MakeGlobalRepo is not called and the stores stay as they were; with any
\* other repository name the PUT is forwarded to the registry.
C7_Theorem ==
    \A p \in Procs :
        LET t == task[p] IN
        (t.pc \notin {"idle", "pre"} /\ t.method = "PUT" /\ ContainsManifestsLatest(t.path))
        => IF IsCIDv1(t.path[2]) \/ IsDigestHex(t.path[2])
           THEN /\ t.pc = "done"
                /\ t.status = 401
                /\ ~t.forwarded
                /\ t.hook = "none"
                /\ mfs = t.rcvMfs
                /\ cache = t.rcvCache
           ELSE /\ t.status # 401
                /\ t.pc = "serve" \/ t.forwarded

\* the PUT of a latest-prefixed tag to a digest-named repository answered 401
C7_Witness ==
    \E p \in Procs :
        LET t == task[p] IN
        /\ t.pc = "done"
        /\ t.method = "PUT"
        /\ IsDigestHex(t.path[2])
        /\ t.path[4] = LatestV1
        /\ t.status = 401

\* ------------------------------------------------------------------- C8
\* C8: every push (manifest PUT of any tag, blob upload) whose repository
\* name is a CID v1 or a digest hex is answered 401 and is not forwarded.
C8_Original ==
    \A p \in Procs :
        LET t == task[p] IN
        (/\ t.pc \notin {"idle", "pre"}
         /\ t.method = "PUT"
         /\ IsCIDv1(t.path[2]) \/ IsDigestHex(t.path[2]))
        => t.status = 401 /\ ~t.forwarded /\ t.pc = "done"

\* ------------------------------------------------------------------- C9
\* C9: when CloneGlobalRepo returns success for a CID v1 name with noclone
\* unset (and no store was purged), the repository and every blob its
\* disco.json lists are in the primary and in the secondary.
C9_Original ==
    \A p \in Procs :
        LET t == task[p]
            R == makeRepoPath(t.repoName)
            listed == IF HasPath(mfs, R) THEN DecodeDiscoFile(mfs.repos[t.repoName].disco) ELSE <<>>
        IN
        (/\ t.pc = "serve"
         /\ t.hook = "clone"
         /\ t.ret = "ok"
         /\ IsCIDv1(t.repoName)
         /\ ~noClone
         /\ purges = 0)
        => /\ HasPath(mfs, R)
           /\ HasPath(cache, R)
           /\ \A k \in 1..Len(listed) :
                /\ HasPath(mfs, makeBlobPath(listed[k].digest))
                /\ HasPath(cache, makeBlobPath(listed[k].digest))

\* ------------------------------------------------------------------ C10
\* C10: after a successful push (the registry answered 201 and MakeGlobalRepo
\* returned success) the secondary holds the manifest, config and layer blobs
\* of the image, its digest-named repository and a CID-named repository.
C10_Original ==
    \A p \in Procs :
        LET t == task[p]
            i == t.body
        IN
        (/\ MakeReturned(p)
         /\ t.ret = "ok"
         /\ t.status = 201
         /\ t.manifestDigest # <<>>)
        => /\ \A k \in 1..Len(DiscoFileOf(i)) :
                HasPath(cache, makeBlobPath(DiscoFileOf(i)[k].digest))
           /\ HasPath(cache, makeRepoPath(t.manifestDigest))
           /\ CidReposOf(cache, t.manifestDigest) # {}

\* ------------------------------------------------------------------ C11
\* the stores hold what one globalization of the image of digest d leaves:
\* the digest repository with the tags latest and <cidv1>, one CID repository,
\* no upload repository, and the secondary holds the same repositories
SingleGlobalization(d) ==
    \E c \in DOMAIN mfs.repos :
        /\ IsCIDv1(c)
        /\ DOMAIN mfs.repos = {d, c}
        /\ DOMAIN mfs.repos[d].tags = {Latest, c}
        /\ HoldsImage(mfs, c, d)
        /\ cache.repos = mfs.repos

\* C11: when two pushes of the same image have run their MakeGlobalRepo
\* concurrently (any interleaving of their steps, no store call failing), the
\* final storage state is the result of a single globalization.
C11_Original ==
    (/\ \A p \in Procs : MakeReturned(p) /\ task[p].status = 201
     /\ task[1].body = task[2].body)
    => SingleGlobalization(HexDigest(ManifestBlob(task[1].body)))

\* ------------------------------------------------------------------ C12
\* C12: when two pushes of different images under the same arbitrary name
\* race (any interleaving of their handlers, their deferred deletions
\* included, the MakeGlobalRepo of the earlier writer returning success),
\* the image whose manifest was written last ends up globalized under its
\* digest name and under a CID name in the primary.
C12_Original ==
    \A p \in Procs : \A q \in Procs \ {p} :
        LET d == HexDigest(ManifestBlob(task[p].body)) IN
        (/\ MakeReturned(p) /\ MakeReturned(q)
         /\ task[p].path = task[q].path
         /\ task[p].body # task[q].body
         /\ task[p].status = 201 /\ task[q].status = 201
         /\ task[q].ret = "ok"
         /\ task[p].wstamp > task[q].wstamp)
        => /\ HoldsImage(mfs, d, d)
           /\ CidReposOf(mfs, d) # {}

\* ------------------------------------------------------------------ C13
\* C13: if an earlier MakeGlobalRepo of the image failed after it had created
\* the digest-named repository (at the cross-reference tag or at the
\* replication in the secondary), then a later push of the image whose
\* MakeGlobalRepo returns success leaves both canonical repositories in both
\* stores and the <cidv1> tag on the digest repository.
C13_Original ==
    \A p \in Procs :
        LET t == task[p]
            d == t.manifestDigest
        IN
        (/\ MakeReturned(p)
         /\ t.ret = "ok"
         /\ t.status = 201
         /\ d # <<>>
         /\ t.lateFail = d
         /\ purges = 0)
        => /\ HoldsImage(mfs, d, d)
           /\ HoldsImage(cache, d, d)
           /\ CidReposOf(mfs, d) # {}
           /\ CidReposOf(cache, d) # {}
           /\ \E c \in DOMAIN mfs.repos[d].tags : IsCIDv1(c)

\* ------------------------------------------------------------------ C14
\* C14: for every HEAD or GET request on .../manifests/..., CloneGlobalRepo
\* has returned before the request is forwarded; when it returned an error
\* the proxy answers 500 and the registry is not invoked; when it returned
\* success the request goes to the registry.
C14_Theorem ==
    \A p \in Procs :
        LET t == task[p] IN
        (t.method \in {"GET", "HEAD"} /\ ContainsManifests(t.path) /\ t.pc # "idle")
        => /\ t.pc \in {"serve", "post"} \/ t.forwarded
                => t.hook = "clone" /\ t.ret = "ok" /\ t.repoName = t.path[2]
           /\ t.ret = "err" => t.pc = "done" /\ t.status = 500 /\ ~t.forwarded
           /\ t.ret = "ok" => t.pc = "serve" \/ t.forwarded
           /\ t.pc = "done" => t.ret # "none"

\* a pull whose clone failed and that was answered 500 without the registry
C14_Witness ==
    \E p \in Procs :
        LET t == task[p] IN
        /\ t.method = "GET"
        /\ t.pc = "done"
        /\ t.hook = "clone"
        /\ t.ret = "err"
        /\ t.status = 500
        /\ ~t.forwarded

\* ------------------------------------------------------------------ C15
\* the call of CloneGlobalRepo of task p is past its disco.json check
CloneChecked(p) ==
    /\ task[p].hook = "clone"
    /\ IsCIDv1(task[p].repoName)
    /\ task[p].pc \notin {"idle", "pre", "c_filter", "c_stat"}

\* the stores held the disco.json of task p's repository when the call began
DiscoFilePresent(p) ==
    \/ HasPath(task[p].preCache, makeDiscoFilePath(task[p].repoName))
    \/ HasPath(task[p].preMfs, makeDiscoFilePath(task[p].repoName))

C16_Theorem ==
    \A p \in Procs :
        LET t == task[p] IN
        (noClone /\ t.hook = "clone" /\ IsCIDv1(t.repoName) /\ t.pc # "idle")
        => /\ t.calls = {}
           /\ t.pc \notin {"c_cp", "c_read", "c_blob", "c_repsec"}
           /\ t.pc \notin {"post", "done"} => mfs = t.preMfs
           /\ t.ret = "err" => t.stat = "other"
           /\ (t.stat \in {"nil", "notfound"} /\ t.pc \notin {"c_tryrep", "c_noclone"})
                => t.ret = "ok"

\* with noclone set, a pull of a CID that neither store holds went on to the
\* server after a successful return
C16_Witness ==
    \E p \in Procs :
        LET t == task[p] IN
        /\ noClone
        /\ t.hook = "clone"
        /\ IsCIDv1(t.repoName)
        /\ t.stat = "notfound"
        /\ t.ret = "ok"
        /\ t.pc = "serve"
        /\ ~HasPath(mfs, makeRepoPath(t.repoName))
        /\ ~HasPath(cache, makeRepoPath(t.repoName))

\* ------------------------------------------------------------------ C17
\* C17: after a local push that succeeded, with noclone set and the primary
\* cut off (and the secondary left alone), a pull of the image by its CID
\* succeeds: CloneGlobalRepo returns success and the server's reads of the
\* repository and blob paths are answered by the secondary, none of them
\* reaching the primary.
C17_Original ==
    \A p \in Procs :
        LET t == task[p]
            d == t.okPush
        IN
        (/\ t.method = "GET"
         /\ t.pc = "done"
         /\ noClone
         /\ ~primaryUp
         /\ purges = 1
         /\ d # <<>>
         /\ IsCIDv1(t.repoName)
         /\ t.repoName \in CidReposOf(mfs, d))
        => /\ t.ret = "ok"
           /\ t.status = 200
           /\ cache = t.rcvCache

\* ------------------------------------------------------------------ C18
\* the pull of task p met no failing store call
PullUndisturbed(p) ==
    /\ ~task[p].failed
    /\ ~(task[p].forwarded /\ task[p].status = 500)

\* C18: after a successful push, when the secondary has lost content (the
\* whole cache or only the CID-named repository) and the primary still holds
\* the image, a pull of the image by CID whose store calls do not fail
\* succeeds, and the paths it read (the disco.json, the tag link, the manifest
\* blob) are in the secondary afterwards.
C18_Theorem ==
    \A p \in Procs :
        LET t == task[p]
            d == t.okPush
            n == t.repoName
        IN
        (/\ t.method = "GET"
         /\ t.pc = "done"
         /\ primaryUp
         /\ d # <<>>
         /\ IsCIDv1(n)
         /\ n \in CidReposOf(t.rcvMfs, d)
         /\ PullUndisturbed(p))
        => /\ t.ret = "ok"
           /\ t.status = 200
           /\ HasPath(cache, makeTagPathFor(n, Latest))
           /\ HasPath(cache, makeBlobPath(d))
           /\ mfs = t.rcvMfs

\* a pull by CID served after the cache had lost the CID-named repository:
\* the repository is back in the secondary
C18_Witness ==
    \E p \in Procs :
        LET t == task[p] IN
        /\ t.method = "GET"
        /\ t.pc = "done"
        /\ t.okPush # <<>>
        /\ IsCIDv1(t.repoName)
        /\ t.repoName \in CidReposOf(t.rcvMfs, t.okPush)
        /\ purges >= 1
        /\ ~HasPath(t.rcvCache, makeRepoPath(t.repoName))
        /\ t.status = 200
        /\ HasPath(cache, makeDiscoFilePath(t.repoName))

\* ------------------------------------------------------------------ C19
\* C19: with no secondary driver configured, MakeGlobalRepo and
\* CloneGlobalRepo work on the primary alone and return as in the two-store
\* case: a push answered 201 whose steps do not fail leaves the digest
\* repository in the primary, and a pull of a CID-v1 name whose disco.json is
\* absent, with noclone unset, performs the network clone (the repository copy
\* from /ipfs/<cid>) before it returns.
C19_Original ==
    \A p \in Procs :
        LET t == task[p] IN
        /\ (/\ t.hook = "make"
            /\ t.pc = "done"
            /\ t.status = 201
            /\ ~t.failed)
           => /\ t.ret = "ok"
              /\ HoldsImage(mfs, t.manifestDigest, t.manifestDigest)
        /\ (/\ t.hook = "clone"
            /\ t.pc = "done"
            /\ IsCIDv1(t.repoName)
            /\ ~noClone
            /\ ~HasPath(t.preMfs, makeDiscoFilePath(t.repoName))
            /\ ~t.failed)
           => /\ t.ret \in {"ok", "err"}
              /\ "cp" \in t.calls

\* ------------------------------------------------------------------ C20
\* the network clone of task p failed at the copy of /ipfs/<cid>, the CID
\* being one that cannot be fetched
CloneUnfetchable(p) ==
    /\ task[p].hook = "clone"
    /\ task[p].pc = "done"
    /\ IsCIDv1(task[p].repoName)
    /\ task[p].ret = "err"
    /\ "cp" \in task[p].calls
    /\ ~Resolvable(task[p].preMfs, objects, MultihashOf(task[p].repoName))

\* C20: when CloneGlobalRepo of a CID-v1 name that neither store holds fails
\* because the CID cannot be fetched from the network, no entry
\* repositories/<cid> exists afterwards in the primary or in the secondary,
\* and the primary is as it was.
C20_Theorem ==
    \A p \in Procs :
        LET t == task[p]
            rp == makeRepoPath(t.repoName)
        IN
        (/\ CloneUnfetchable(p)
         /\ ~HasPath(t.preMfs, rp)
         /\ ~HasPath(t.preCache, rp))
        => /\ ~HasPath(mfs, rp)
           /\ ~HasPath(cache, rp)
           /\ mfs = t.preMfs

\* a pull of the unknown CID went to the network and failed there
C20_Witness ==
    \E p \in Procs :
        /\ CloneUnfetchable(p)
        /\ task[p].repoName = UnknownCid
        /\ task[p].status = 500
        /\ ~noClone
        /\ ~HasPath(mfs, makeRepoPath(UnknownCid))
        /\ ~HasPath(cache, makeRepoPath(UnknownCid))

\* ------------------------------------------------------------------ C21
\* C21: a MakeGlobalRepo that has begun is not stopped by the cancellation of
\* the request's context: after a push of tag latest answered 201, with no store call
\* failing and no purge, the cancelled call ends as an uncancelled one does,
\* with success, a repository of the digest name in the primary and the
\* arbitrary-name repository deleted from both stores.
C21_Original ==
    \A p \in Procs :
        LET t == task[p] IN
        (/\ MakeReturned(p)
         /\ t.cancelled
         /\ t.status = 201
         /\ t.path[4] = Latest
         /\ ~IsOnlyPullable(t.repoName)
         /\ faults = 0
         /\ purges = 0)
        => /\ t.ret = "ok"
           /\ t.del = "ok"
           /\ ~HasPath(mfs, makeRepoPath(t.repoName))
           /\ ~HasPath(cache, makeRepoPath(t.repoName))
           /\ t.manifestDigest # <<>>
           /\ HasPath(mfs, makeRepoPath(t.manifestDigest))

\* ------------------------------------------------------------------ C22
\* every blob data file of store before is in store after, with its content
BlobsKept(before, after) ==
    \A h \in DOMAIN before.blobs :
        /\ h \in DOMAIN after.blobs
        /\ after.blobs[h] = before.blobs[h]

\* C22: no step of MakeGlobalRepo or CloneGlobalRepo removes or overwrites an
\* existing blob data file: from the start of the call on, every blob that
\* the primary or the secondary held is still there with the same content,
\* whatever repositories the call deleted or copied.
C22_Theorem ==
    \A p \in Procs :
        LET t == task[p] IN
        (t.hook \in {"make", "clone"} /\ t.pc # "idle")
        => /\ BlobsKept(t.preMfs, mfs)
           /\ BlobsKept(t.preCache, cache)

\* a MakeGlobalRepo that removed and copied repositories and deleted the
\* upload repository, in stores that held blobs when it began
C22_Witness ==
    \E p \in Procs :
        LET t == task[p] IN
        /\ MakeReturned(p)
        /\ t.del = "ok"
        /\ {"rm", "cp", "delete"} \subseteq t.calls
        /\ DOMAIN t.preMfs.blobs # {}
        /\ DOMAIN t.preCache.blobs # {}
        /\ ~HasPath(mfs, makeRepoPath(t.repoName))

C23_WitnessCopy ==
    \E p \in Procs :
        /\ CloneChecked(p)
        /\ ~HasPath(task[p].preCache, makeDiscoFilePath(task[p].repoName))
        /\ task[p].stat = "nil"
        /\ HasPath(cache, makeDiscoFilePath(task[p].repoName))

\* ---------------------------------------------------------------- C24
\* what store s holds at path p
PathContent(s, p) ==
    CASE p.kind = "repo" -> s.repos[p.name]
      [] p.kind = "blob" -> <<s.blobs[p.name]>>
      [] p.kind = "disco" -> s.repos[p.name].disco
      [] OTHER -> s.repos[p.name].tags[p.tag]

\* the last call of the composed driver was the replication op, nothing failed
\* underneath, and these are the source and the destination before and the
\* destination after
Replicated(op) == drv.op = op /\ drv.mode = "ok"
SrcBefore == IF drv.op = "ReplicateInSecondary" THEN drv.preMfs ELSE drv.preCache
DstBefore == IF drv.op = "ReplicateInSecondary" THEN drv.preCache ELSE drv.preMfs
DstAfter == IF drv.op = "ReplicateInSecondary" THEN cache ELSE mfs
SrcSide == IF drv.op = "ReplicateInSecondary" THEN "primary" ELSE "secondary"
DstSide == IF drv.op = "ReplicateInSecondary" THEN "secondary" ELSE "primary"
StoresKept == mfs = drv.preMfs /\ cache = drv.preCache
NoWriterCall == \A k \in 1..Len(drv.log) : drv.log[k].method # "Writer"

\* path in the destination: its info, no call to the source, nothing written
ReplicateHit ==
    HasPath(DstBefore, drv.path) =>
        /\ drv.err = "nil"
        /\ StoresKept
        /\ \A k \in 1..Len(drv.log) :
                drv.log[k].side = DstSide /\ drv.log[k].method = "Stat"

\* path in neither store: path-not-found, nothing written
ReplicateMiss ==
    (~HasPath(DstBefore, drv.path) /\ ~HasPath(SrcBefore, drv.path)) =>
        /\ drv.err = "notfound"
        /\ StoresKept
        /\ NoWriterCall

\* the copy went through: the destination holds what the source holds at the
\* path and its Stat was the last backend call
ReplicateCopied ==
    /\ drv.err = "nil"
    /\ HasPath(DstAfter, drv.path)
    /\ PathContent(DstAfter, drv.path) = PathContent(SrcBefore, drv.path)
    /\ drv.log[Len(drv.log)] = Call(DstSide, "Stat", drv.path, NoPath, NoData)

\* C24 as stated: after ReplicateInSecondary(path) without a backend failure,
\* a path the secondary held is answered from the secondary alone and nothing
\* is written; a path absent from both stores gives path-not-found and nothing
\* is written; a path only the primary held has been copied and the secondary's
\* info is returned. The same for ReplicateInPrimary with the stores exchanged.
C24_Original ==
    \A op \in {"ReplicateInSecondary", "ReplicateInPrimary"} :
        Replicated(op) =>
            /\ ReplicateHit
            /\ ReplicateMiss
            /\ (~HasPath(DstBefore, drv.path) /\ HasPath(SrcBefore, drv.path))
                    => ReplicateCopied

\* C24 amended: the third case holds for a path with at least one regular file
\* under it; for a directory without any regular file nothing is written and
\* the destination's path-not-found error is returned.
C24_Amended ==
    \A op \in {"ReplicateInSecondary", "ReplicateInPrimary"} :
        Replicated(op) =>
            /\ ReplicateHit
            /\ ReplicateMiss
            /\ (~HasPath(DstBefore, drv.path) /\ HasPath(SrcBefore, drv.path)) =>
                    IF FilesUnder(SrcBefore, drv.path) # <<>>
                    THEN ReplicateCopied
                    ELSE drv.err = "notfound" /\ StoresKept /\ NoWriterCall

\* ReplicateInSecondary has copied a repository that only the primary held
C24_Witness ==
    /\ Replicated("ReplicateInSecondary")
    /\ drv.path = makeRepoPath(MyRepo)
    /\ ~HasPath(drv.preCache, drv.path)
    /\ HasPath(drv.preMfs, drv.path)
    /\ RepoOf(drv.preMfs, MyRepo) = FullRepo
    /\ RepoOf(cache, MyRepo) = FullRepo
    /\ drv.err = "nil"

\* ReplicateInSecondary on a repository directory of the primary that holds no
\* regular file
C24_WitnessEmptyDir ==
    /\ Replicated("ReplicateInSecondary")
    /\ drv.path = makeRepoPath(MyRepo)
    /\ ~HasPath(drv.preCache, drv.path)
    /\ HasPath(drv.preMfs, drv.path)
    /\ RepoOf(drv.preMfs, MyRepo) = EmptyRepo
    /\ drv.err = "notfound"

\* ---------------------------------------------------------------- C25
RECURSIVE AllHeld(_, _)
AllHeld(s, fs) == fs = <<>> \/ (HasPath(s, Head(fs)) /\ AllHeld(s, Tail(fs)))

\* C25 as stated: whenever ReplicateInSecondary(path) has returned success for
\* a directory path, every regular file under the path in the primary is at
\* the same path in the secondary, whatever the secondary held before the call.
C25_Original ==
    (/\ drv.op = "ReplicateInSecondary"
     /\ drv.err = "nil"
     /\ IsDirPath(drv.path))
        => AllHeld(cache, FilesUnder(mfs, drv.path))

\* ---------------------------------------------------------------- C26
HoldsContent(s, p, content) == HasPath(s, p) /\ PathContent(s, p) = content

\* C26: after PutContent(path, content) on the composed driver the first
\* backend call is the primary's PutContent; the secondary's PutContent, with
\* the same path and content, follows only when the primary's returned no
\* error; the call returns no error exactly when both writes went through, and
\* then both stores hold the content; otherwise it returns the error of the
\* side that failed, and a failed primary write leaves both stores as they were.
C26_Theorem ==
    drv.op = "PutContent" =>
        LET content == drv.log[1].data
        IN /\ Len(drv.log) \in {1, 2}
           /\ drv.log[1] = Call("primary", "PutContent", drv.path, NoPath, content)
           /\ Len(drv.log) = 2 <=> drv.mode # "failPrimary"
           /\ Len(drv.log) = 2 =>
                /\ drv.log[2] = Call("secondary", "PutContent", drv.path, NoPath, content)
                /\ HoldsContent(mfs, drv.path, content)
           /\ drv.err = "nil" <=> drv.mode = "ok"
           /\ drv.err = "nil" =>
                HoldsContent(mfs, drv.path, content) /\ HoldsContent(cache, drv.path, content)
           /\ drv.mode = "failPrimary" => drv.err = "primary" /\ StoresKept
           /\ drv.mode = "failSecondary" =>
                drv.err = "secondary" /\ cache = drv.preCache

\* a PutContent that went through on a path neither store held
C26_Witness ==
    /\ drv.op = "PutContent"
    /\ drv.err = "nil"
    /\ Len(drv.log) = 2
    /\ ~HasPath(drv.preMfs, drv.path)
    /\ ~HasPath(drv.preCache, drv.path)
    /\ HoldsContent(mfs, drv.path, Link(4))
    /\ HoldsContent(cache, drv.path, Link(4))

\* ---------------------------------------------------------------- C27
WriterOps == {"Write", "Close", "Cancel", "Commit"}

\* what holds after every call on the fan-out writer: the primary writer is
\* called first, the secondary writer second and only after the primary one
\* returned no error, with the same argument; Size is the primary's size;
\* while no Write has failed both writers hold the same chunks in the same order
FanOutState ==
    /\ drv.op \in WriterOps =>
        /\ Len(drv.log) \in {1, 2}
        /\ drv.log[1].side = "primary" /\ drv.log[1].method = drv.op
        /\ Len(drv.log) = 2 <=> drv.mode # "failPrimary"
        /\ Len(drv.log) = 2 =>
              drv.log[2] = [drv.log[1] EXCEPT !.side = "secondary"]
        /\ drv.mode = "failPrimary" => drv.err = "primary"
        /\ drv.mode = "failSecondary" => drv.err = "secondary"
        /\ drv.mode = "ok" => drv.err = "nil"
    /\ drv.op = "Size" => drv.size = drv.pri.size
    /\ (drv.open /\ drv.writesOk) => drv.sec.chunks = drv.pri.chunks

\* what one call on the fan-out writer does to the two backend writers
FanOutStep ==
    (drv'.op \in WriterOps /\ drv' # drv) =>
        /\ drv'.mode = "failPrimary" => drv'.pri = drv.pri /\ drv'.sec = drv.sec
        /\ drv'.mode = "failSecondary" => drv'.pri # drv.pri /\ drv'.sec = drv.sec
        /\ drv'.mode = "ok" => drv'.pri # drv.pri /\ drv'.sec # drv.sec
        /\ (drv'.op = "Write" /\ drv'.mode # "failPrimary") =>
              drv'.pri.chunks = Append(drv.pri.chunks, drv'.log[1].data)
        /\ (drv'.op = "Write" /\ drv'.mode = "ok") =>
              drv'.sec.chunks = Append(drv.sec.chunks, drv'.log[1].data)

\* C27: every Write, Close, Cancel and Commit of the fan-out writer goes to the
\* primary writer first and then to the secondary writer; when the primary
\* operation fails the secondary one is not performed and the error is
\* returned; Size reports the primary writer's size; after successful Writes
\* both writers have received the same chunks in the same order.
C27_Theorem == [](FanOutState) /\ [][FanOutStep]_vars

\* two chunks written through the fan-out writer and committed on both sides,
\* and the size then asked for
C27_Witness ==
    /\ drv.op = "Size"
    /\ drv.writesOk
    /\ Len(drv.pri.chunks) = 2
    /\ drv.pri.chunks[1] # drv.pri.chunks[2]
    /\ drv.sec.chunks = drv.pri.chunks
    /\ drv.pri.committed /\ drv.sec.committed
    /\ drv.size = 3

\* ---------------------------------------------------------------- C28
NoReplication ==
    \A k \in 1..Len(drv.log) : drv.log[k].method \notin {"Stat", "Reader", "Writer", "Walk"}

C28_WitnessPrimaryFailed ==
    /\ drv.op = "Move"
    /\ drv.mode = "ok"
    /\ drv.err = "primary"
    /\ HasPath(cache, drv.path)

\* ---------------------------------------------------------------- C29
\* the MD5 digests of "aa" and "ac" as published test vectors give them
DigestAa == <<65, 36, 188, 10, 147, 53, 194, 127, 8, 111, 36, 186, 32, 122, 73, 18>>
DigestAc == <<226, 7, 84, 116, 41, 73, 131, 224, 19, 238, 77, 210, 32, 28, 122, 115>>

\* the digest as a number, modulo n: the most significant byte comes first
RECURSIVE NumberMod(_, _)
NumberMod(bytes, n) ==
    IF bytes = <<>> THEN 0
    ELSE (NumberMod(SubSeq(bytes, 1, Len(bytes) - 1), n) * 256 + bytes[Len(bytes)]) % n

RouteOk(k) == router.calls[k].err = "nil"

\* C29: for a fixed node count N >= 1 the node RouteContent chooses depends on
\* the content id alone: two calls that return the same id return the same
\* index; the index is MD5(id) mod N and lies in 0..N-1; with N = 2 the
\* repositories path of id aa, the uploads path of id ac and the blobs path of
\* id aa go to the nodes 0, 1 and 0.
C29_Theorem ==
    /\ \A j, k \in 1..Len(router.calls) :
            (RouteOk(j) /\ RouteOk(k) /\ router.calls[j].id = router.calls[k].id)
                => router.calls[j].index = router.calls[k].index
    /\ \A k \in 1..Len(router.calls) :
            RouteOk(k) =>
                /\ router.calls[k].index \in 0..(router.nodeCount - 1)
                /\ router.calls[k].id = StrAa =>
                        router.calls[k].index = NumberMod(DigestAa, router.nodeCount)
                /\ router.calls[k].id = StrAc =>
                        router.calls[k].index = NumberMod(DigestAc, router.nodeCount)
                /\ router.nodeCount = 2 =>
                    /\ router.calls[k].path
                            = <<Slash>> \o Join(<<StrDocker, StrRegistry, StrV2,
                                                  StrRepositories, StrAa>>)
                        => router.calls[k].index = 0 /\ router.calls[k].id = StrAa
                    /\ router.calls[k].path
                            = <<Slash>> \o Join(<<StrDocker, StrRegistry, StrV2,
                                                  StrUploads, StrAc>>)
                        => router.calls[k].index = 1 /\ router.calls[k].id = StrAc
                    /\ router.calls[k].path
                            = <<Slash>> \o Join(<<StrDocker, StrRegistry, StrV2, StrBlobs,
                                                  StrSha256, StrAa, StrAa>>)
                        => router.calls[k].index = 0 /\ router.calls[k].id = StrAa

\* with three nodes, the repository aa and the blob aa were routed to the same
\* node, which is not node 0
C29_Witness ==
    /\ router.nodeCount = 3
    /\ Len(router.calls) = 2
    /\ RouteOk(1) /\ RouteOk(2)
    /\ router.calls[1].path
            = <<Slash>> \o Join(<<StrDocker, StrRegistry, StrV2, StrRepositories, StrAa>>)
    /\ router.calls[2].path
            = <<Slash>> \o Join(<<StrDocker, StrRegistry, StrV2, StrBlobs,
                                  StrSha256, StrAa, StrAa>>)
    /\ router.calls[1].index = 2
    /\ router.calls[2].index = 2

\* ---------------------------------------------------------------- C30
RoutePrefix == <<Slash>> \o Join(<<StrDocker, StrRegistry, StrV2, <<>>>>)

\* the segments of a path, its leading slash apart
SegmentsOf(path) == IF path = <<>> THEN <<>> ELSE Split(Tail(path))

\* the cases in which the claim promises an error
RouteErrorDue(path) ==
    \/ ~HasPrefix(path, RoutePrefix)
    \/ Len(SegmentsOf(path)) < 5
    \/ SegmentsOf(path)[4] \notin {StrRepositories, StrUploads, StrBlobs}

\* the id the claim promises for a path that is none of those cases
RouteIdDue(path, id) ==
    LET segs == SegmentsOf(path)
    IN IF segs[4] = StrBlobs
       THEN Len(segs) >= 7 /\ id = segs[7]
       ELSE id = segs[5]

\* C30 as stated: for every path string RouteContent returns an id and a node
\* index, or an error, and never crashes; it returns an error when the path
\* does not begin with /docker/registry/v2/, has fewer than five segments or
\* has a content kind other than repositories, uploads or blobs; otherwise the
\* id is segment 1 after the prefix for repositories and uploads and segment 3
\* after the prefix for blobs.
C30_Original ==
    \A k \in 1..Len(router.calls) :
        LET c == router.calls[k]
        IN /\ c.err \in {"nil", "error"}
           /\ RouteErrorDue(c.path) => c.err = "error"
           /\ ~RouteErrorDue(c.path) => c.err = "nil" /\ RouteIdDue(c.path, c.id)

\* ------------------------------------------------------------------ C31
\* the entry of blob d: its digest and the CID the IPFS stat of its data file
\* reports
StatEntry(d) ==
    [digest |-> HexDigest(d), cid |-> CidV0(HashOf(objects, BlobObject(d)))]

\* the entries of image i: manifest, config, then the layers in manifest order
ListedBlobs(i) ==
    <<StatEntry(ManifestBlob(i)), StatEntry(ConfigBlob(i))>>
        \o [k \in 1..Len(LayerBlobs(i)) |-> StatEntry(LayerBlobs(i)[k])]

\* the image whose manifest has digest hex h
ImageOf(h) == CHOOSE i \in LocalImages \cup RemoteImages : HexDigest(ManifestBlob(i)) = h

\* task p has just written disco.json into the uploaded repository
DiscoWritten(p) ==
    /\ task[p].hook = "make"
    /\ task[p].pc = "m_getcid"

\* task p has just read the disco.json of the repository it clones
DiscoRead(p) ==
    /\ task[p].hook = "clone"
    /\ task[p].pc = "c_blob"
    /\ task[p].idx = 1

\* C31: the disco.json that MakeGlobalRepo writes lists the manifest, the
\* config and every layer in manifest order, each with its digest and the CID
\* of its blob path; the entries CloneGlobalRepo reads from a disco.json are
\* the entries that were written, in the same order.
C31_Theorem ==
    \A p \in Procs :
        LET t == task[p] IN
        /\ DiscoWritten(p) =>
                /\ HasPath(mfs, makeDiscoFilePath(t.repoName))
                /\ DecodeDiscoFile(mfs.repos[t.repoName].disco)
                        = ListedBlobs(ImageOf(t.manifestDigest))
        /\ DiscoRead(p) =>
                t.blobs = ListedBlobs(ImageOf(
                    digestFromLink(mfs.repos[t.repoName].tags[Latest])))

\* a pull has read the disco.json of a CID repository, a file of three
\* entries, while the primary holds a disco.json that a push wrote
C31_Witness ==
    /\ DiscoRead(1)
    /\ Len(task[1].blobs) = 3
    /\ \E n \in DOMAIN mfs.repos :
            /\ IsDigestHex(n)
            /\ DecodeDiscoFile(mfs.repos[n].disco) = ListedBlobs(1)

\* ------------------------------------------------------------------ C32
\* task p is the only one that went past the step-3 check: every other task
\* stopped before step 2 or left at the check
OnlyGlobalizer(p) ==
    \A q \in Procs \ {p} : task[q].repoCid = <<>>

\* C32: once MakeGlobalRepo has returned success after its replication into
\* the secondary, the digest-named repository has the same tags in the
\* secondary as in the primary, whatever other requests read through the
\* composed driver in the meantime.
C32_Original ==
    \A p \in Procs :
        LET t == task[p]
            dp == makeRepoPath(t.manifestDigest)
        IN
        (/\ t.hook = "make"
         /\ t.pc = "m_defer"
         /\ t.ret = "ok"
         /\ ~t.shortcut
         /\ ~t.failed
         /\ OnlyGlobalizer(p)
         /\ HasPath(mfs, dp))
        => /\ HasPath(cache, dp)
           /\ cache.repos[t.manifestDigest].tags = mfs.repos[t.manifestDigest].tags

\* ------------------------------------------------------------------ C33
\* the request of task t is a PUT of .../manifests/latest
IsLatestPut(t) == t.method = "PUT" /\ ContainsManifestsLatest(t.path)

\* MakeGlobalRepo runs for a request only after the embedded server has
\* answered it, and a forwarded PUT of manifests/latest does not end without it
MakeAfterServe ==
    \A p \in Procs :
        LET t == task[p] IN
        /\ t.hook = "make" => t.forwarded /\ t.status # 0
        /\ (t.pc = "done" /\ t.forwarded /\ IsLatestPut(t))
                => t.hook = "make" /\ t.ret \in {"ok", "err"}

\* from the answer of the embedded server to the end of the request, no step
\* changes the status that goes to the client
StatusKept ==
    \A p \in Procs :
        (task[p].forwarded /\ task'[p].pc # "idle")
            => task'[p].status = task[p].status

\* C33: for a forwarded PUT of .../manifests/latest, MakeGlobalRepo is invoked
\* only after the embedded server has served the request and whatever status
\* it returned, and the status sent to the client is the embedded server's,
\* also when MakeGlobalRepo fails.
C33_Theorem == [](MakeAfterServe) /\ [][StatusKept]_vars

\* a push that the embedded server answered with 201 has ended with a failed
\* MakeGlobalRepo, and the answer is still 201
C33_Witness ==
    /\ task[1].pc = "done"
    /\ IsLatestPut(task[1])
    /\ task[1].forwarded
    /\ task[1].hook = "make"
    /\ task[1].ret = "err"
    /\ task[1].status = 201

\* MakeGlobalRepo was invoked after the embedded server had refused the push
C33_WitnessRefused ==
    /\ task[1].hook = "make"
    /\ task[1].pc = "done"
    /\ task[1].status \in {400, 500}

\* ------------------------------------------------------------------ C34
\* MakeGlobalRepo acts on the repository the request addresses
ReadsAddressed ==
    \A p \in Procs :
        task'[p].hook = "make" => task'[p].repoName = ServerRepoName(task'[p].path)

\* the repositories that a step removes from a store
Removed(s, sAfter) == (DOMAIN s.repos) \ (DOMAIN sAfter.repos)

\* the deferred Delete of MakeGlobalRepo removes no repository but the one the
\* request addresses
DeletesAddressed ==
    \A p \in Procs :
        (task[p].pc = "m_defer" /\ task'[p].pc = "done")
            => Removed(mfs, mfs') \cup Removed(cache, cache')
                    \subseteq {ServerRepoName(task[p].path)}

\* C34: for every PUT /v2/<name>/manifests/latest, also when <name> has several
\* path segments, MakeGlobalRepo reads and deletes the repository <name> only;
\* no other repository is deleted.
C34_Original == [][ReadsAddressed /\ DeletesAddressed]_vars

\* ------------------------------------------------------------------ C35
\* the content at /ipfs/<repoCid> of task t
CidContent(t) == objects[MultihashOf(t.repoCid)]

\* task p has taken the CID of the uploaded repository (step 2)
CidTaken(p) ==
    /\ task[p].hook = "make"
    /\ task[p].repoCid # <<>>
    /\ task[p].pc \in {"m_cidrm", "m_cidcp", "m_digrm", "m_digcp", "m_tag"}

\* task p has made both copies and has not yet tagged the digest repository
BothCopied(p) ==
    /\ task[p].hook = "make"
    /\ task[p].pc = "m_tag"

\* C35: the CID that names the CID repository is taken from the uploaded
\* repository after disco.json was written into it, so the content at
\* /ipfs/<that CID> includes the disco.json that was written; both canonical
\* repositories are copies of that CID and hold the same disco.json.
C35_Original ==
    \A p \in Procs :
        LET t == task[p] IN
        /\ CidTaken(p) =>
                /\ "write" \in t.calls
                /\ t.repoCidV1 = ToCIDv1(t.repoCid)
                /\ CidContent(t).disco = EncodeDiscoFile(t.blobs)
        /\ BothCopied(p) =>
                /\ RepoObject(mfs.repos[t.manifestDigest]) = CidContent(t)
                /\ RepoObject(mfs.repos[t.repoCidV1]) = CidContent(t)

\* ------------------------------------------- the pipe-based FileWriter
\* One file is replicated into a driver whose Writer is the pipe-based
\* FileWriter: syncD1ToD2 is the caller, the goroutine of NewFileWriter is the
\* background write task, writeFunc is FilesWrite of the IPFS node.
MaxParts == 2           \* chunks of the source file
MaxSyncs == 2           \* replications of the same path in one behaviour

\* the source files: chunk k of a file is the number k
SourceFiles == {[k \in 1..n |-> k] : n \in 0..MaxParts}

NotWriter == <<mfs, cache, objects, dirSize, noClone, primaryUp, task, faults,
               purges, served, drv, router, nodes>>

InitWriter ==
    /\ mfs = EmptyStore
    /\ cache = EmptyStore
    /\ objects = InitObjects
    /\ dirSize = 1
    /\ noClone = FALSE
    /\ primaryUp = TRUE
    /\ task = [p \in Procs |-> IdleTask]
    /\ faults = 0
    /\ purges = 0
    /\ served = 0
    /\ drv = IdleDrv
    /\ router = IdleRouter
    /\ fw \in {[IdleWriter EXCEPT !.src = f] : f \in SourceFiles}
    /\ nodes = IdleNodes

\* Replicate of one file: the destination is looked at first, and a file that
\* is there ends the replication
ReplicateFile ==
    /\ fw.caller \in {"none", "returned"}
    /\ fw.bg \in {"none", "done"}
    /\ fw.syncs < MaxSyncs
    /\ fw' = [IdleWriter EXCEPT !.src = fw.src, !.file = fw.file,
                                !.syncs = fw.syncs + 1,
                                !.caller = IF fw.file # NoFile THEN "returned" ELSE "reader",
                                !.ret = IF fw.file # NoFile THEN "exists" ELSE "none"]
    /\ UNCHANGED NotWriter

\* syncD1ToD2: d1.Reader
SyncReader ==
    /\ fw.caller = "reader"
    /\ \E ok \in BOOLEAN :
        fw' = IF ok THEN [fw EXCEPT !.caller = "writer"]
              ELSE [fw EXCEPT !.caller = "returned", !.ret = "reader"]
    /\ UNCHANGED NotWriter

\* NewFileWriter: the pipe is made and the goroutine is started; the writer
\* is returned before the goroutine has run
NewFileWriter(w) == [w EXCEPT !.bg = "start", !.caller = "copy"]

SyncWriter ==
    /\ fw.caller = "writer"
    /\ fw' = NewFileWriter(fw)
    /\ UNCHANGED NotWriter

\* io.Copy: one Read of the source; a chunk is handed to Write, the end of
\* the source ends the copy, a failed Read ends syncD1ToD2
CopyRead ==
    /\ fw.caller = "copy"
    /\ \E ok \in BOOLEAN :
        fw' = IF ~ok THEN [fw EXCEPT !.caller = "close", !.ret = "copy"]
              ELSE IF fw.pos < Len(fw.src)
                   THEN [fw EXCEPT !.caller = "write", !.pending = <<fw.src[fw.pos + 1]>>]
              ELSE [fw EXCEPT !.caller = "commit"]
    /\ UNCHANGED NotWriter

\* FileWriter.Write: pw.Write returns when the reader side has taken the
\* chunk, or with an error when the reader side has been closed
Write(w) ==
    IF w.pending = <<>>
    THEN [w EXCEPT !.size = @ + 1, !.pos = @ + 1, !.caller = "copy"]
    ELSE [w EXCEPT !.pending = <<>>, !.caller = "close", !.ret = "copy"]

CopyWrite ==
    /\ fw.caller = "write"
    /\ fw.pending = <<>> \/ fw.prClosed
    /\ fw' = Write(fw)
    /\ UNCHANGED NotWriter

\* the first half of Close: fw.pw.Close()
PwClose(w, next) == [w EXCEPT !.pwClosed = TRUE, !.caller = next]

\* getErr: the mutex is taken, fw.err is read, the mutex is released; the
\* result carries whether the background write had finished by then
getErr(w, method) ==
    [err |-> w.err, done |-> w.bg = "done", method |-> method]

\* getErr waits while the background task holds the mutex
CanGetErr(w) == w.mu = "free"

\* FileWriter.Commit, FileWriter.Cancel and FileWriter.Close are one code
Close(w, method, next, ret) ==
    [w EXCEPT !.rets = Append(@, getErr(w, method)), !.caller = next, !.ret = ret]

SyncCommit ==
    /\ \/ /\ fw.caller = "commit"
          /\ fw' = PwClose(fw, "commit_err")
       \/ /\ fw.caller = "commit_err"
          /\ CanGetErr(fw)
          /\ fw' = IF getErr(fw, "Commit").err = "nil"
                   THEN Close(fw, "Commit", "close", "nil")
                   ELSE Close(fw, "Commit", "cancel", "commit")
    /\ UNCHANGED NotWriter

SyncCancel ==
    /\ \/ /\ fw.caller = "cancel"
          /\ fw' = PwClose(fw, "cancel_err")
       \/ /\ fw.caller = "cancel_err"
          /\ CanGetErr(fw)
          /\ fw' = Close(fw, "Cancel", "close", fw.ret)
    /\ UNCHANGED NotWriter

\* the deferred d2w.Close() of syncD1ToD2
SyncClose ==
    /\ \/ /\ fw.caller = "close"
          /\ fw' = PwClose(fw, "close_err")
       \/ /\ fw.caller = "close_err"
          /\ CanGetErr(fw)
          /\ fw' = Close(fw, "Close", "returned", fw.ret)
    /\ UNCHANGED NotWriter

\* the goroutine of NewFileWriter takes the mutex and calls writeFunc
BgLock ==
    /\ fw.bg = "start"
    /\ fw.mu = "free"
    /\ fw' = [fw EXCEPT !.bg = "writing", !.mu = "bg"]
    /\ UNCHANGED NotWriter

\* writeFunc reads the chunk a Write is offering
BgRead ==
    /\ fw.bg = "writing"
    /\ fw.pending # <<>>
    /\ fw' = [fw EXCEPT !.got = Append(@, fw.pending[1]), !.pending = <<>>]
    /\ UNCHANGED NotWriter

\* writeFunc has read up to the end of the stream: FilesWrite stores what it
\* received at the path and returns nil; fw.err is set, the mutex released
BgEof ==
    /\ fw.bg = "writing"
    /\ fw.pwClosed
    /\ fw.pending = <<>>
    /\ fw' = [fw EXCEPT !.file = <<fw.got>>, !.err = "nil", !.mu = "free", !.bg = "done"]
    /\ UNCHANGED NotWriter

\* writeFunc fails: nothing is stored; whether the reader side of the pipe is
\* closed is up to the HTTP client
BgFail ==
    /\ fw.bg = "writing"
    /\ \E closed \in BOOLEAN :
        fw' = [fw EXCEPT !.err = "failed", !.mu = "free", !.bg = "done",
                         !.prClosed = closed]
    /\ UNCHANGED NotWriter

NextWriter ==
    \/ ReplicateFile
    \/ SyncReader
    \/ SyncWriter
    \/ CopyRead
    \/ CopyWrite
    \/ SyncCommit
    \/ SyncCancel
    \/ SyncClose
    \/ BgLock
    \/ BgRead
    \/ BgEof
    \/ BgFail

SpecWriter == InitWriter /\ [][NextWriter]_vars

\* ------------------------------------------------------------------ C36
\* C36: in every interleaving of the caller with the background write task,
\* Close and Commit (and Cancel) of the pipe-based file writer return only
\* after the background write has finished, and return the error that write
\* produced, also when they are called before any byte was written.
C36_Original ==
    \A k \in 1..Len(fw.rets) :
        /\ fw.rets[k].done
        /\ fw.bg = "done" => fw.rets[k].err = fw.err

\* ------------------------------------------------------ the router client
MaxClientCalls == 2     \* calls of the RouterClient in one behaviour

StrIpfs == <<105, 112, 102, 115>>
StrQm == <<81, 109>>

\* the CID strings cid.Parse accepts
ValidCids == {StrQm}

\* the paths of the router client's tests, and paths the router refuses
TestPath1 == <<Slash>> \o Join(<<StrDocker, StrRegistry, StrV2, StrRepositories, StrAa>>)
TestPath2 == <<Slash>> \o Join(<<StrDocker, StrRegistry, StrV2, StrRepositories, StrAc>>)
TestCidPath == <<Slash>> \o Join(<<StrIpfs, StrQm>>)
NotCidPath == <<Slash>> \o Join(<<StrIpfs, StrAa>>)
UnroutedPath == <<Slash>> \o Join(<<StrDocker, StrRegistry, StrV1, StrRepositories, StrAa>>)
ShortBlobPath == <<Slash>> \o Join(<<StrDocker, StrRegistry, StrV2, StrBlobs, StrSha256>>)

ClientPaths ==
    {TestPath1, TestPath2, TestCidPath, NotCidPath, UnroutedPath, ShortBlobPath, <<>>}

\* cid.Parse of a path of two segments: the part after /ipfs/ is decoded
CidParse(segments) == segments[1] = StrIpfs /\ segments[2] \in ValidCids

\* utils.IsIPFSPath; the caller has made sure the path is not empty
IsIPFSPath(path) ==
    /\ path[1] = Slash
    /\ Len(Split(Tail(path))) = 2
    /\ CidParse(Split(Tail(path)))

\* one call a node of the router client received
NodeCall(node, method, src, dst) ==
    [node |-> node, method |-> method, src |-> src, dst |-> dst]

\* a file of a node's MFS
NodeFile(node, path) == [node |-> node, path |-> path]

\* the node calls that can be made to fail
ClientFails == {"none", "rmDest", "stat", "cp", "rmSrc", "mv"}

\* what a client method hands back: its error, the node calls it made, the
\* files of the nodes afterwards and the hash of a stat
Outcome(err, calls, files, hash) ==
    [err |-> err, calls |-> calls, files |-> files, hash |-> hash]

\* the answers of the client's Router for the paths of the client's callers
RoutesOf(nodeCount) == [p \in ClientPaths |-> RouteContent(p, nodeCount)]

\* RouterClient.GetClientFor: the index of the node, or the router's error
GetClientFor(path) == router.routes[path]

\* RouterClient.FilesStat
ClientFilesStat(path, files, fail) ==
    LET c == GetClientFor(path)
    IN IF c.err # "nil" THEN Outcome(c.err, <<>>, files, <<>>)
       ELSE Outcome(IF fail = "stat" \/ NodeFile(c.index, path) \notin files
                    THEN "error" ELSE "nil",
                    <<NodeCall(c.index, "FilesStat", path, <<>>)>>, files, StrQm)

\* RouterClient.FilesRm with force; step names the failure that hits it
ClientFilesRm(path, files, fail, step) ==
    LET c == GetClientFor(path)
    IN IF c.err # "nil" THEN Outcome(c.err, <<>>, files, <<>>)
       ELSE Outcome(IF fail = step THEN "error" ELSE "nil",
                    <<NodeCall(c.index, "FilesRm", path, <<>>)>>,
                    IF fail = step THEN files ELSE files \ {NodeFile(c.index, path)},
                    <<>>)

\* the FilesCp of one node: it refuses a destination that exists
NodeFilesCp(node, src, dest, files, fail) ==
    LET bad == fail = "cp" \/ NodeFile(node, dest) \in files
    IN Outcome(IF bad THEN "error" ELSE "nil",
               <<NodeCall(node, "FilesCp", src, dest)>>,
               IF bad THEN files ELSE files \cup {NodeFile(node, dest)}, <<>>)

\* a FilesCp that copies on the node of the source
ClientFilesCpAtSource(src, dest, files, fail) ==
    IF src = <<>> THEN Outcome("panic", <<>>, files, <<>>)
    ELSE LET stat == IF IsIPFSPath(src) THEN Outcome("nil", <<>>, files, <<>>)
                     ELSE ClientFilesStat(src, files, fail)
             ipfsSrc == IF IsIPFSPath(src) THEN src
                        ELSE <<Slash>> \o Join(<<StrIpfs, stat.hash>>)
         IN IF stat.err # "nil" THEN stat
            ELSE LET c == GetClientFor(IF IsIPFSPath(src) THEN dest ELSE src)
                 IN IF c.err # "nil" THEN Outcome(c.err, stat.calls, files, <<>>)
                    ELSE LET cp == NodeFilesCp(c.index, ipfsSrc, dest, files, fail)
                         IN Outcome(cp.err, stat.calls \o cp.calls, cp.files, <<>>)

\* RouterClient.FilesCp: a source that is no IPFS path is resolved by a stat,
\* then the copy is issued on the node of the destination
ClientFilesCp(src, dest, files, fail) ==
    IF src = <<>> THEN Outcome("panic", <<>>, files, <<>>)
    ELSE LET stat == IF IsIPFSPath(src) THEN Outcome("nil", <<>>, files, <<>>)
                     ELSE ClientFilesStat(src, files, fail)
             ipfsSrc == IF IsIPFSPath(src) THEN src
                        ELSE <<Slash>> \o Join(<<StrIpfs, stat.hash>>)
         IN IF stat.err # "nil" THEN stat
            ELSE LET c == GetClientFor(dest)
                 IN IF c.err # "nil" THEN Outcome(c.err, stat.calls, files, <<>>)
                    ELSE LET cp == NodeFilesCp(c.index, ipfsSrc, dest, files, fail)
                         IN Outcome(cp.err, stat.calls \o cp.calls, cp.files, <<>>)

\* the FilesMv of one node
NodeFilesMv(node, src, dest, files, fail) ==
    LET bad == fail = "mv" \/ NodeFile(node, src) \notin files
    IN Outcome(IF bad THEN "error" ELSE "nil",
               <<NodeCall(node, "FilesMv", src, dest)>>,
               IF bad THEN files
               ELSE (files \ {NodeFile(node, src)}) \cup {NodeFile(node, dest)}, <<>>)

\* a FilesMv that removes the source whatever the copy did
ClientFilesMvAlwaysRemoving(src, dest, files, fail) ==
    LET s == GetClientFor(src)
        d == GetClientFor(dest)
    IN IF s.err # "nil" THEN Outcome(s.err, <<>>, files, <<>>)
       ELSE IF d.err # "nil" THEN Outcome(d.err, <<>>, files, <<>>)
       ELSE IF s.index = d.index THEN NodeFilesMv(s.index, src, dest, files, fail)
       ELSE LET rm == ClientFilesRm(dest, files, fail, "rmDest")
                cp == ClientFilesCp(src, dest, rm.files, fail)
                rs == ClientFilesRm(src, cp.files, fail, "rmSrc")
            IN Outcome(IF cp.err # "nil" THEN cp.err ELSE rs.err,
                       rm.calls \o cp.calls \o rs.calls, rs.files, <<>>)

\* RouterClient.FilesMv: a native move on one node; across two nodes the
\* destination is removed, the source copied and then removed
ClientFilesMv(src, dest, files, fail) ==
    LET s == GetClientFor(src)
        d == GetClientFor(dest)
    IN IF s.err # "nil" THEN Outcome(s.err, <<>>, files, <<>>)
       ELSE IF d.err # "nil" THEN Outcome(d.err, <<>>, files, <<>>)
       ELSE IF s.index = d.index THEN NodeFilesMv(s.index, src, dest, files, fail)
       ELSE LET rm == ClientFilesRm(dest, files, fail, "rmDest")
                cp == ClientFilesCp(src, dest, rm.files, fail)
            IN IF cp.err # "nil"
               THEN Outcome(cp.err, rm.calls \o cp.calls, cp.files, <<>>)
               ELSE LET rs == ClientFilesRm(src, cp.files, fail, "rmSrc")
                    IN Outcome(rs.err, rm.calls \o cp.calls \o rs.calls, rs.files, <<>>)

\* the files the nodes can hold at the start: each test path on its node
NodeFileSets(routes) ==
    SUBSET {NodeFile(routes[p].index, p) : p \in {TestPath1, TestPath2}}

InitClient ==
    /\ mfs = EmptyStore
    /\ cache = EmptyStore
    /\ objects = InitObjects
    /\ dirSize = 1
    /\ noClone = FALSE
    /\ primaryUp = TRUE
    /\ task = [p \in Procs |-> IdleTask]
    /\ faults = 0
    /\ purges = 0
    /\ served = 0
    /\ drv = IdleDrv
    /\ router \in {[nodeCount |-> k, calls |-> <<>>, routes |-> RoutesOf(k)] :
                        k \in 1..MaxNodes}
    /\ fw = IdleWriter
    /\ nodes \in {[IdleNodes EXCEPT !.files = f] :
                    f \in NodeFileSets(router.routes)}

NotNodes == <<mfs, cache, objects, dirSize, noClone, primaryUp, task, faults,
              purges, served, drv, router, fw>>

\* one call of a client method; a panic ends the program
Called(op, src, dest, fail, r) ==
    [nodes EXCEPT !.files = r.files, !.n = @ + 1,
                  !.last = [op |-> op, src |-> src, dest |-> dest, fail |-> fail,
                            err |-> r.err, calls |-> r.calls, before |-> nodes.files]]

CanCall ==
    /\ nodes.n < MaxClientCalls
    /\ nodes.last.op # "none" => nodes.last.err # "panic"

CallFilesCp(src, dest, fail) ==
    /\ CanCall
    /\ nodes' = Called("FilesCp", src, dest, fail, ClientFilesCp(src, dest, nodes.files, fail))
    /\ UNCHANGED NotNodes

CallFilesMv(src, dest, fail) ==
    /\ CanCall
    /\ nodes' = Called("FilesMv", src, dest, fail, ClientFilesMv(src, dest, nodes.files, fail))
    /\ UNCHANGED NotNodes

NextClient ==
    \/ \E src \in ClientPaths, dest \in ClientPaths, fail \in ClientFails :
            CallFilesCp(src, dest, fail)
    \/ \E src \in ClientPaths, dest \in ClientPaths, fail \in ClientFails :
            CallFilesMv(src, dest, fail)

SpecClient == InitClient /\ [][NextClient]_vars
\* ------------------------------------------------------------------ C37
\* where the router sends the paths of the last call
LastSrc == GetClientFor(nodes.last.src)
LastDest == GetClientFor(nodes.last.dest)

\* the last call was a FilesMv whose paths both route to a node
MvRouted ==
    /\ nodes.last.op = "FilesMv"
    /\ LastSrc.err = "nil"
    /\ LastDest.err = "nil"

\* the node calls of a move across two nodes, in their order
MvAcross ==
    <<NodeCall(LastDest.index, "FilesRm", nodes.last.dest, <<>>),
      NodeCall(LastSrc.index, "FilesStat", nodes.last.src, <<>>),
      NodeCall(LastDest.index, "FilesCp", TestCidPath, nodes.last.dest),
      NodeCall(LastSrc.index, "FilesRm", nodes.last.src, <<>>)>>

\* the copy of the last move could not succeed: its stat or its copy was made
\* to fail, the source was missing, or the destination was still there
MvCopyFailed ==
    \/ nodes.last.fail \in {"stat", "cp"}
    \/ NodeFile(LastSrc.index, nodes.last.src) \notin nodes.last.before
    \/ /\ nodes.last.fail = "rmDest"
       /\ NodeFile(LastDest.index, nodes.last.dest) \in nodes.last.before

\* C37: FilesMv makes one native move when source and destination route to
\* the same node; otherwise it removes the destination, copies the source by
\* CID on the destination node and removes the source on the source node, in
\* this order; when the copy fails it returns an error, makes no call that
\* removes the source, and the source stays where it was.
C37_Theorem ==
    MvRouted =>
        IF LastSrc.index = LastDest.index
        THEN nodes.last.calls =
                <<NodeCall(LastSrc.index, "FilesMv", nodes.last.src, nodes.last.dest)>>
        ELSE /\ Len(nodes.last.calls) \in 2..4
             /\ nodes.last.calls = SubSeq(MvAcross, 1, Len(nodes.last.calls))
             /\ IF MvCopyFailed
                THEN /\ nodes.last.err = "error"
                     /\ Len(nodes.last.calls) < 4
                     /\ NodeFile(LastSrc.index, nodes.last.src) \in nodes.files
                            <=> NodeFile(LastSrc.index, nodes.last.src) \in nodes.last.before
                ELSE Len(nodes.last.calls) = 4

\* a move across two nodes whose copy was made to fail after the stat
C37_Witness ==
    /\ MvRouted
    /\ LastSrc.index # LastDest.index
    /\ nodes.last.fail = "cp"
    /\ NodeFile(LastSrc.index, nodes.last.src) \in nodes.last.before
    /\ Len(nodes.last.calls) = 3
    /\ nodes.last.err = "error"

\* a native move on one node, and a move across two nodes that went through
C37_WitnessMoved ==
    /\ MvRouted
    /\ nodes.last.err = "nil"
    /\ nodes.last.src # nodes.last.dest
    /\ LastSrc.index # LastDest.index
    /\ NodeFile(LastDest.index, nodes.last.dest) \in nodes.files
    /\ NodeFile(LastSrc.index, nodes.last.src) \notin nodes.files

\* ------------------------------------------------------------------ C38
\* the last call was a FilesCp
CpDone == nodes.last.op = "FilesCp"

\* the stat of the last copy could not succeed
CpStatFailed ==
    \/ nodes.last.fail = "stat"
    \/ NodeFile(LastSrc.index, nodes.last.src) \notin nodes.last.before

\* node calls of the last call with the given method
CallsOf(method) ==
    {k \in 1..Len(nodes.last.calls) : nodes.last.calls[k].method = method}

\* C38: FilesCp with a source that is no /ipfs/<cid> path stats the source on
\* the node the source routes to and then issues the copy of /ipfs/<hash> on
\* the node the destination routes to; with an /ipfs/<cid> source it issues
\* no stat; when the stat or the routing of a path fails no copy is issued.
C38_Theorem ==
    CpDone =>
        IF nodes.last.src = <<>> THEN nodes.last.calls = <<>>
        ELSE IF IsIPFSPath(nodes.last.src)
        THEN /\ CallsOf("FilesStat") = {}
             /\ IF LastDest.err # "nil"
                THEN nodes.last.calls = <<>> /\ nodes.last.err # "nil"
                ELSE nodes.last.calls =
                        <<NodeCall(LastDest.index, "FilesCp", nodes.last.src,
                                   nodes.last.dest)>>
        ELSE IF LastSrc.err # "nil"
        THEN nodes.last.calls = <<>> /\ nodes.last.err # "nil"
        ELSE IF CpStatFailed \/ LastDest.err # "nil"
        THEN /\ nodes.last.calls =
                    <<NodeCall(LastSrc.index, "FilesStat", nodes.last.src, <<>>)>>
             /\ nodes.last.err # "nil"
        ELSE nodes.last.calls =
                <<NodeCall(LastSrc.index, "FilesStat", nodes.last.src, <<>>),
                  NodeCall(LastDest.index, "FilesCp", TestCidPath, nodes.last.dest)>>

\* a copy from one node to another that went through
C38_Witness ==
    /\ CpDone
    /\ nodes.last.src # <<>>
    /\ ~IsIPFSPath(nodes.last.src)
    /\ LastSrc.err = "nil"
    /\ LastDest.err = "nil"
    /\ LastSrc.index # LastDest.index
    /\ nodes.last.err = "nil"
    /\ Len(nodes.last.calls) = 2

\* a copy of an /ipfs/<cid> source, and a copy whose stat failed
C38_WitnessIpfs ==
    /\ CpDone
    /\ nodes.last.src = TestCidPath
    /\ nodes.last.err = "nil"
    /\ Len(nodes.last.calls) = 1

\* ------------------------------------------------ the manifest link file
\* MakeGlobalRepo is called for a repository whose link file holds whatever
\* the store holds: the registry has answered the PUT of image 1 under
\* myrepo:latest, and the link is well-formed, missing, too short, of another
\* prefix, or names something that is no digest.
StrSHA256Upper == <<83, 72, 65, 50, 53, 54, 58>>     \* "SHA256:"
NotHex == <<999>>                                     \* 64 bytes that are no hex

LinkContents ==
    {Link(ManifestBlob(1)),
     <<>>,
     SubSeq(Sha256Prefix, 1, 5),
     StrSHA256Upper \o HexDigest(ManifestBlob(1)),
     Sha256Prefix \o NotHex}

\* sha256:<64 hex>
WellFormedLink(b) ==
    /\ HasPrefix(b, Sha256Prefix)
    /\ IsDigestHex(SubSeq(b, 8, Len(b)))

\* the store after the upload of image 1, with the given tags in myrepo
LinkStore(tags) ==
    [repos |-> Put(EmptyFn, MyRepo, [tags |-> tags, disco |-> <<>>]),
     blobs |-> [h \in {HexDigest(d) : d \in {ManifestBlob(1), 2, 3}} |-> h[1] - HexBase]]

InitLink ==
    /\ mfs \in {LinkStore(EmptyFn)} \cup {LinkStore(Put(EmptyFn, Latest, b)) : b \in LinkContents}
    /\ cache = mfs
    /\ objects = InitObjects
    /\ dirSize \in {0, 1}
    /\ noClone = FALSE
    /\ primaryUp = TRUE
    /\ task = [p \in Procs |->
                IF p = 1
                THEN [IdleTask EXCEPT !.pc = "post", !.method = "PUT",
                                      !.path = ManifestPath(MyRepo, Latest), !.body = 1,
                                      !.forwarded = TRUE, !.status = 201,
                                      !.rcvMfs = UploadedStore, !.rcvCache = UploadedStore]
                ELSE IdleTask]
    /\ faults = 0
    /\ purges = MaxPurges
    /\ served = 0
    /\ drv = IdleDrv
    /\ router = IdleRouter
    /\ fw = IdleWriter
    /\ nodes = IdleNodes

NextLink ==
    \/ \E p \in Procs : PostHandle(p)
    \/ \E p \in Procs : MakeGlobalRepo(p)
    \/ \E p \in Procs : Finish(p)

SpecLink == InitLink /\ [][NextLink]_vars

\* ------------------------------------------------------------------ C39
\* the link file MakeGlobalRepo of task p was given: missing, or its content
LinkGiven(p) ==
    IF HasPath(task[p].preMfs, makeManifestLinkPath(task[p].repoName))
    THEN <<task[p].preMfs.repos[task[p].repoName].tags[Latest]>>
    ELSE <<>>

BadLink(p) == LinkGiven(p) = <<>> \/ ~WellFormedLink(LinkGiven(p)[1])

\* the canonical repositories of a store
CanonicalRepos(s) == {n \in DOMAIN s.repos : IsCIDv1(n) \/ IsDigestHex(n)}

\* C39: when the manifest link file is missing or does not have the form
\* sha256:<64 hex> (content shorter than seven bytes included), MakeGlobalRepo
\* returns an error, does not crash, and creates no canonical repository.
C39_Original ==
    \A p \in Procs :
        (MakeReturned(p) /\ BadLink(p)) =>
            /\ task[p].ret = "err"
            /\ CanonicalRepos(mfs) \subseteq CanonicalRepos(task[p].preMfs)

\* ------------------------------------------------------------------ C40
\* the replication has returned with a failed copy and the background write
\* task of its writer has ended
CopyFailed ==
    /\ fw.caller = "returned"
    /\ fw.ret = "copy"
    /\ fw.bg = "done"

\* C40: when copying a file during replication fails before Commit, no file
\* is left at the destination path, so a later replication of the same path
\* does not take a truncated file for a replicated one: it ends at the
\* destination check only when the destination holds the whole source file.
C40_Original ==
    /\ CopyFailed => fw.file = NoFile
    /\ fw.ret = "exists" => fw.file = <<fw.src>>
====
